---- MODULE Spec2Model ----
(***************************************************************************)
(* A model of the ainews curation pipeline: the duplicate detector, the    *)
(* topic filter, the relevance scorer and the daily crawl script.          *)
(*                                                                         *)
(* Text is a sequence of one-character strings.  A SHA-256 digest is       *)
(* modelled by the text it is taken of (the digest is treated as           *)
(* collision free), so two digests are equal exactly when the digested,    *)
(* already normalised, texts are equal.                                    *)
(***************************************************************************)
EXTENDS Integers, Sequences, FiniteSets, TLC

(***************************************************************************)
(* Python string primitives                                                *)
(***************************************************************************)
UPPERCASE == <<"A","B","C","D","E","F","G","H","I","J","K","L","M",
               "N","O","P","Q","R","S","T","U","V","W","X","Y","Z">>

LOWERCASE == <<"a","b","c","d","e","f","g","h","i","j","k","l","m",
               "n","o","p","q","r","s","t","u","v","w","x","y","z">>

DIGITS == {"0","1","2","3","4","5","6","7","8","9"}

WHITESPACE == {" ", "\t", "\n"}

Range(s) == {s[i] : i \in 1..Len(s)}

IsSpace(c) == c \in WHITESPACE

UpperChars == Range(UPPERCASE)

LowerChars == Range(LOWERCASE)

\* \w of the re module: a letter, a digit or the underscore
WordChars == UpperChars \cup LowerChars \cup DIGITS \cup {"_"}

\* the lower-case letter of each upper-case letter
Lowered ==
    [c \in UpperChars |-> LOWERCASE[CHOOSE i \in 1..Len(UPPERCASE) : UPPERCASE[i] = c]]

IsUpperChar(c) == c \in UpperChars

IsLowerChar(c) == c \in LowerChars

IsWordChar(c) == c \in WordChars

LowerChar(c) == IF c \in UpperChars THEN Lowered[c] ELSE c

\* str.lower()
StrLower(s) == [i \in 1..Len(s) |-> LowerChar(s[i])]

RECURSIVE LStrip(_)
LStrip(s) == IF Len(s) > 0 /\ IsSpace(s[1]) THEN LStrip(Tail(s)) ELSE s

RECURSIVE RStrip(_)
RStrip(s) ==
    IF Len(s) > 0 /\ IsSpace(s[Len(s)])
    THEN RStrip(SubSeq(s, 1, Len(s) - 1))
    ELSE s

\* str.strip()
StrStrip(s) == RStrip(LStrip(s))

\* str.split() with no separator: the maximal runs of non-whitespace
RECURSIVE SplitAcc(_, _, _)
SplitAcc(s, cur, acc) ==
    IF Len(s) = 0
    THEN IF Len(cur) > 0 THEN Append(acc, cur) ELSE acc
    ELSE IF IsSpace(s[1])
         THEN SplitAcc(Tail(s), <<>>, IF Len(cur) > 0 THEN Append(acc, cur) ELSE acc)
         ELSE SplitAcc(Tail(s), Append(cur, s[1]), acc)

StrSplit(s) == SplitAcc(s, <<>>, <<>>)

\* ' '.join(words)
RECURSIVE JoinSpace(_)
JoinSpace(words) ==
    IF Len(words) = 0 THEN <<>>
    ELSE IF Len(words) = 1 THEN words[1]
    ELSE words[1] \o <<" ">> \o JoinSpace(Tail(words))

\* s.replace(c, '') for every c of chars
RemoveChars(s, chars) == SelectSeq(s, LAMBDA c : c \notin chars)

\* str.startswith
StartsWith(s, p) == Len(s) >= Len(p) /\ SubSeq(s, 1, Len(p)) = p

\* p in s
Contains(s, p) ==
    \E i \in 0..(Len(s) - Len(p)) : SubSeq(s, i + 1, i + Len(p)) = p

\* re.findall(r'\b\w+\b', s): the maximal runs of word characters
RECURSIVE FindWordsAcc(_, _, _)
FindWordsAcc(s, cur, acc) ==
    IF Len(s) = 0
    THEN IF Len(cur) > 0 THEN Append(acc, cur) ELSE acc
    ELSE IF ~IsWordChar(s[1])
         THEN FindWordsAcc(Tail(s), <<>>, IF Len(cur) > 0 THEN Append(acc, cur) ELSE acc)
         ELSE FindWordsAcc(Tail(s), Append(cur, s[1]), acc)

FindWords(s) == FindWordsAcc(s, <<>>, <<>>)

\* a \b of the re module between s[i] and s[i+1] (0 <= i <= Len(s))
WordBoundaryAt(s, i) ==
    LET before == i >= 1 /\ IsWordChar(s[i])
        after  == i < Len(s) /\ IsWordChar(s[i + 1])
    IN  before # after

\* re.search(r'\b' + re.escape(w) + r'\b', s)
SearchWord(w, s) ==
    \E i \in 0..(Len(s) - Len(w)) :
        /\ SubSeq(s, i + 1, i + Len(w)) = w
        /\ WordBoundaryAt(s, i)
        /\ WordBoundaryAt(s, i + Len(w))

Min(a, b) == IF a <= b THEN a ELSE b

Max(a, b) == IF a >= b THEN a ELSE b

(***************************************************************************)
(* difflib.SequenceMatcher(None, a, b).ratio() for texts shorter than 200  *)
(* characters (no junk, no "popular" elements)                             *)
(***************************************************************************)
\* length of the common run of a and b that starts at a[i+1], b[j+1]
RECURSIVE RunLen(_, _, _, _, _, _)
RunLen(a, b, i, j, ahi, bhi) ==
    IF i < ahi /\ j < bhi /\ a[i + 1] = b[j + 1]
    THEN 1 + RunLen(a, b, i + 1, j + 1, ahi, bhi)
    ELSE 0

\* find_longest_match: the longest block, of these the one starting
\* earliest in a, of these the one starting earliest in b
FindLongestMatch(a, b, alo, ahi, blo, bhi) ==
    LET Cand == {<<i, j>> \in (alo..(ahi - 1)) \X (blo..(bhi - 1)) :
                     a[i + 1] = b[j + 1]}
    IN  IF Cand = {} THEN [i |-> alo, j |-> blo, k |-> 0]
        ELSE LET L(c) == RunLen(a, b, c[1], c[2], ahi, bhi)
                 best == CHOOSE c \in Cand :
                            \A d \in Cand :
                               \/ L(c) > L(d)
                               \/ /\ L(c) = L(d)
                                  /\ \/ c[1] < d[1]
                                     \/ c[1] = d[1] /\ c[2] <= d[2]
             IN  [i |-> best[1], j |-> best[2], k |-> L(best)]

\* get_matching_blocks: the sum of the sizes of the matching blocks
RECURSIVE MatchCount(_, _, _, _, _, _)
MatchCount(a, b, alo, ahi, blo, bhi) ==
    LET m == FindLongestMatch(a, b, alo, ahi, blo, bhi)
    IN  IF m.k = 0 THEN 0
        ELSE m.k
             + (IF alo < m.i /\ blo < m.j
                THEN MatchCount(a, b, alo, m.i, blo, m.j) ELSE 0)
             + (IF m.i + m.k < ahi /\ m.j + m.k < bhi
                THEN MatchCount(a, b, m.i + m.k, ahi, m.j + m.k, bhi) ELSE 0)

Matches(a, b) == MatchCount(a, b, 0, Len(a), 0, Len(b))

\* ratio() >= t for the rational t = t.num / t.den; ratio() is
\* 2.0 * matches / length, and 1.0 when both texts are empty
RatioAtLeast(a, b, t) ==
    IF Len(a) + Len(b) = 0
    THEN t.den >= t.num
    ELSE 2 * Matches(a, b) * t.den >= t.num * (Len(a) + Len(b))

(***************************************************************************)
(* Bounds of the model                                                     *)
(***************************************************************************)
\* the number of articles one detector is handed, over all its batches
MaxArticles == 4

\* the last instant of the clock (one tick is one day)
MaxClock == 2

\* the length of the lists of articles a client passes to the scorer
MaxCorpus == 2

\* the length of the lists of articles a client asks a threshold for
MaxScored == 3

\* the length of the lists of articles a client has summarized
MaxSummarized == 3

\* the number of worker threads the content processor is made with
MaxWorkers == 2

\* rate_limit_delay, in ticks of the summarizer's clock (a tick is a second)
RateLimitTicks == 2

\* the largest config.max_retries (3 is the default)
MaxRetries == 4

(***************************************************************************)
(* The inputs                                                              *)
(***************************************************************************)
Sha256(s) == <<"sha256", s>>

\* Article._generate_content_hash
ArticleContentHash(content) == Sha256(StrStrip(StrLower(content)))

\* datetime.isoformat() of the instant t, and a text that is no ISO date
IsoFormat(t) == <<"iso", t>>

NotADate == <<"text", 0>>

\* Article.create; t is datetime.now()
ArticleCreate(title, url, source, raw_content, t) ==
    [title           |-> title,
     url             |-> url,
     source          |-> source,
     discovered_date |-> IsoFormat(t),
     content_hash    |-> ArticleContentHash(IF Len(raw_content) > 0
                                            THEN raw_content ELSE title),
     summary         |-> <<>>,
     related_topics  |-> <<>>,
     relevance_score |-> 0,
     raw_content     |-> raw_content]

Urls == {"u1", "u2"}

\* what the crawler can find: <<title, url, source, raw content>>
Crawlable ==
    { <<<<"a","b">>, "u1", "hackernews", <<"p"," ","q">>>>,
      <<<<"x","y","z">>, "u2", "lwn", <<"P"," "," ","q",".">>>>,
      <<<<"h","n",":"," ","a","b">>, "u2", "hackernews", <<"r">>>>,
      <<<<"a","c">>, "u1", "lwn", <<"r">>>>,
      <<<<"x","y","z">>, "u1", "lwn", <<" ","p"," ","q"," ">>>>,
      <<<<"x","y","z">>, "u2", "lwn", <<"r">>>> }

\* LWN articles whose content could not be fetched (crawler.py, lines 342-349)
CrawlableWithoutContent ==
    { <<<<"a","b">>, "u1", "lwn", <<>>>>,
      <<<<"x","y","z">>, "u2", "lwn", <<>>>> }

\* the values of duplicate_threshold, as fractions (0.9 is the default)
Thresholds == { [num |-> 1, den |-> 2], [num |-> 9, den |-> 10] }

\* the values of the days argument of cleanup_old_urls
CleanupDays == {0, 1}

\* FilteringConfig: the defaults of min_relevance_score and max_articles_per_day
DefaultMinRelevance == 1800

DefaultMaxArticles == 100

(***************************************************************************)
(* The state                                                               *)
(***************************************************************************)
VARIABLES
    duplicate_threshold,  \* config.filtering.duplicate_threshold
    interest_topics,      \* config.interest_topics
    min_relevance_score,  \* config.filtering.min_relevance_score, in 1/ONE
    max_articles_per_day, \* config.filtering.max_articles_per_day
    processed_urls,       \* DuplicateDetector.processed_urls: url -> ProcessedUrl
    now,                  \* the clock read by datetime.now()
    pc,                   \* where the caller of the components is
    handled,              \* articles the detector has been handed so far
    articles,             \* the Article objects of the batch at hand
    unique_articles,      \* find_duplicates_in_batch: the accepted, as positions in articles
    duplicate_articles,   \* ... the rejected articles, as positions in articles
    seen_hashes,          \* ... the content hashes accepted in this batch
    known_at_entry,       \* the URLs that had an entry when the call began
    relevant_articles,    \* the list filter_articles returns and score_articles_batch sorts
    final_articles,       \* main: the selection of lines 86-95
    saved_articles,       \* main: what process_articles returns and the run saves
    corpus_stats,         \* RelevanceScorer.total_documents and .document_frequencies
    last_call,            \* calculate_comprehensive_score: the call the client made
                          \* last, with its result
    raised,               \* the exception the last call of the scorer ended with
    returned,             \* cleanup_old_urls, suggest_score_threshold: the argument
                          \* and the value returned, until the client's next call
    first_pass,           \* the articles and the two lists of the call of
                          \* find_duplicates_in_batch whose batch is submitted again
    second_pass,          \* who handles the batch submitted again
    max_workers,          \* ContentProcessor.max_workers
    already_processed,    \* process_articles: articles_already_processed (line 35),
                          \* as positions in articles
    task_state,           \* _process_articles_parallel: the state of the future of
                          \* each article submitted to the executor
    processed_articles,   \* ... the articles whose result was taken, as positions
    failed_articles,      \* ... the articles whose future raised, as positions
    main_sleeps,          \* ... what is left of the time.sleep of line 74
    since_completion,     \* the time since a request to the service completed,
                          \* up to rate_limit_delay; -1 when none has
    max_retries,          \* _retry_with_backoff: max_retries, once line 56 has set it
    attempt,              \* ... the loop variable
    calls,                \* ... the number of calls of func so far
    errors,               \* ... the errors the calls of func raised, in order
    waits,                \* ... the arguments of the calls of time.sleep, in order
    stored_urls,          \* the datastore's processed_urls.json
    prev_accepted,        \* the entries of the URLs the previous run accepted, as
                          \* its detector held them when the run ended
    backup_enabled,       \* JSONDataStore.backup_enabled
    target_file,          \* the text of the file a save replaces, None when absent
    temp_file,            \* the text of the file beside it with suffix .tmp
    backup_file,          \* the text of the file beside it with suffix .backup
    pending,              \* the text json.dump is writing
    prior_target,         \* the text of the target when the save was called
    failed_step,          \* the step of the save that raised, "" when none has
    loaded                \* what the last reader of the target got from json.load

configVars == <<duplicate_threshold, interest_topics, min_relevance_score,
                max_articles_per_day>>

batchVars == <<articles, unique_articles, duplicate_articles, seen_hashes, known_at_entry>>

selectionVars == <<relevant_articles, final_articles, saved_articles>>

scorerVars == <<corpus_stats, last_call, raised>>

storeVars == <<stored_urls, prev_accepted>>

resubmitVars == <<first_pass, second_pass>>

summarizerVars == <<max_workers, already_processed, task_state, processed_articles, failed_articles,
                    main_sleeps, since_completion>>

retryVars == <<max_retries, attempt, calls, errors, waits>>

fileVars == <<backup_enabled, target_file, temp_file, backup_file, pending, prior_target,
              failed_step, loaded>>

\* the state of the components that are exercised on their own
componentVars == <<resubmitVars, summarizerVars, retryVars, fileVars>>

vars == <<configVars, processed_urls, now, pc, handled, batchVars, selectionVars,
          scorerVars, returned, storeVars, componentVars>>

(***************************************************************************)
(* ProcessedUrl (models.py)                                                *)
(***************************************************************************)
\* ProcessedUrl.create
ProcessedUrlCreate(url, content_hash, t) ==
    [url           |-> url,
     first_seen    |-> t,
     last_seen     |-> t,
     process_count |-> 1,
     content_hash  |-> content_hash]

\* update_seen without the increment of process_count
UpdateSeenKeepCount(p, content_hash, t) ==
    [p EXCEPT !.last_seen = t, !.content_hash = content_hash]

\* ProcessedUrl.update_seen
UpdateSeen(p, content_hash, t) ==
    [p EXCEPT !.last_seen = t,
              !.process_count = p.process_count + 1,
              !.content_hash = content_hash]

(***************************************************************************)
(* DuplicateDetector (storage/duplicate_detector.py)                       *)
(***************************************************************************)
PUNCTUATION == {".", ",", "!", "?", ";", ":", "\"", "(", ")", "[", "]", "{", "}"}

\* DuplicateDetector._normalize_content
NormalizeContent(content) ==
    RemoveChars(JoinSpace(StrSplit(StrLower(content))), PUNCTUATION)

\* DuplicateDetector.generate_content_hash (no caller in the repository)
GenerateContentHash(content) == Sha256(NormalizeContent(content))

TitlePrefixes == <<<<"a","s","k"," ","h","n",":">>, <<"s","h","o","w"," ","h","n",":">>, <<"t","e","l","l"," ","h","n",":">>, <<"h","n",":">>>>

RECURSIVE RemovePrefixes(_, _)
RemovePrefixes(s, prefixes) ==
    IF Len(prefixes) = 0 THEN s
    ELSE RemovePrefixes(
             IF StartsWith(s, prefixes[1])
             THEN StrStrip(SubSeq(s, Len(prefixes[1]) + 1, Len(s)))
             ELSE s,
             Tail(prefixes))

\* DuplicateDetector._normalize_title
NormalizeTitle(title) ==
    JoinSpace(StrSplit(RemovePrefixes(StrStrip(StrLower(title)), TitlePrefixes)))

\* _are_titles_similar with > in place of >=
AreTitlesSimilarStrict(title1, title2, threshold) ==
    ~RatioAtLeast(NormalizeTitle(title1), NormalizeTitle(title2), threshold)
    \/ /\ Len(NormalizeTitle(title1)) + Len(NormalizeTitle(title2)) > 0
       /\ 2 * Matches(NormalizeTitle(title1), NormalizeTitle(title2)) * threshold.den
             > threshold.num * (Len(NormalizeTitle(title1)) + Len(NormalizeTitle(title2)))

\* DuplicateDetector._are_titles_similar
AreTitlesSimilar(title1, title2, threshold) ==
    RatioAtLeast(NormalizeTitle(title1), NormalizeTitle(title2), threshold)

\* DuplicateDetector._is_content_similar
IsContentSimilar(hash1, hash2) == hash1 = hash2

\* DuplicateDetector._is_hash_similar
IsHashSimilar(hash1, hash2) == hash1 = hash2

\* DuplicateDetector.is_url_processed
IsUrlProcessed(urls, url) == url \in DOMAIN urls

\* DuplicateDetector.mark_url_processed
MarkUrlProcessed(urls, url, content_hash, t) ==
    IF url \in DOMAIN urls
    THEN [urls EXCEPT ![url] = UpdateSeen(urls[url], content_hash, t)]
    ELSE [u \in DOMAIN urls \cup {url} |->
             IF u = url THEN ProcessedUrlCreate(url, content_hash, t) ELSE urls[u]]

\* the check against the processed URLs without the comparison of the hashes
DuplicateByUrlAlone(urls, article) == IsUrlProcessed(urls, article.url)

\* find_duplicates_in_batch, lines 62-67: the check against the processed URLs
DuplicateByUrl(urls, article) ==
    /\ IsUrlProcessed(urls, article.url)
    /\ IsContentSimilar(urls[article.url].content_hash, article.content_hash)

\* find_duplicates_in_batch, lines 70-75: the check against this batch's hashes
DuplicateByHash(hashes, article) ==
    \E seen_hash \in hashes : IsHashSimilar(seen_hash, article.content_hash)

\* find_duplicates_in_batch, lines 78-83: the check against the accepted titles
DuplicateByTitle(batch, uniques, article, threshold) ==
    \E k \in 1..Len(uniques) :
        AreTitlesSimilar(article.title, batch[uniques[k]].title, threshold)

\* find_duplicates_in_batch, lines 60-83: is_duplicate of one article
IsDuplicate(urls, hashes, batch, uniques, article, threshold) ==
    \/ DuplicateByUrl(urls, article)
    \/ DuplicateByHash(hashes, article)
    \/ DuplicateByTitle(batch, uniques, article, threshold)

\* the rejected article left out of the list
DropDuplicate(duplicates, n) == duplicates

\* find_duplicates_in_batch, line 86: duplicate_articles.append(article)
RejectDuplicate(duplicates, n) == Append(duplicates, n)

\* the accepted article put at the head of the list
AcceptUniqueFirst(uniques, n) == <<n>> \o uniques

\* find_duplicates_in_batch, line 88: unique_articles.append(article)
AcceptUnique(uniques, n) == Append(uniques, n)

\* the entries last seen at the cutoff or before it
OldUrlsInclusive(urls, days, t) == {u \in DOMAIN urls : urls[u].last_seen <= t - days}

\* the entries cleanup_old_urls removes
OldUrls(urls, days, t) == {u \in DOMAIN urls : urls[u].last_seen < t - days}

(***************************************************************************)
(* Numbers.  A score is a whole number of 1/ONE: 0.1 is ONE \div 10.       *)
(***************************************************************************)
\* the float 1.0
ONE == 6000

\* x * (n / d)
Times(x, n, d) == (x * n) \div d

RECURSIVE SumSeq(_)
SumSeq(q) == IF Len(q) = 0 THEN 0 ELSE q[1] + SumSeq(Tail(q))

\* math.log(n) for the document counts of the model, rounded to 1/ONE
LogTable == <<0, 4159, 6592, 8318, 9657, 10751, 11675, 12477>>

\* math.log(n / d)
Log(n, d) == LogTable[n] - LogTable[d]

\* the token of s that starts at s[i], for the separators seps
RECURSIVE TokenEnd(_, _, _)
TokenEnd(s, seps, i) ==
    IF i < Len(s) /\ s[i + 1] \notin seps THEN TokenEnd(s, seps, i + 1) ELSE i

TokenStarts(s, seps) ==
    {i \in 1..Len(s) : s[i] \notin seps /\ (i = 1 \/ s[i - 1] \in seps)}

TokenAt(s, seps, i) == SubSeq(s, i, TokenEnd(s, seps, i))

\* len(s.split())
WordCount(s) == Cardinality(TokenStarts(s, WHITESPACE))

\* str.isupper()
IsUpperStr(s) ==
    /\ \E i \in 1..Len(s) : IsUpperChar(s[i])
    /\ \A i \in 1..Len(s) : ~IsLowerChar(s[i])

\* the elements of q without the repetitions, in the order of first occurrence
RECURSIVE Distinct(_)
Distinct(q) ==
    IF Len(q) = 0 THEN <<>>
    ELSE LET front == Distinct(SubSeq(q, 1, Len(q) - 1))
         IN  IF q[Len(q)] \in Range(front) THEN front ELSE Append(front, q[Len(q)])

\* Python's None, where a text is expected
None == <<"None">>

\* f"{x}": the text of x
Str(x) == IF x = None THEN <<"N","o","n","e">> ELSE x

\* f"{article.title} {article.raw_content or ''}"
ArticleText(article) == Str(article.title) \o <<" ">> \o article.raw_content

(***************************************************************************)
(* TopicFilter (filters/topic_filter.py)                                   *)
(***************************************************************************)
STOP_WORDS == {<<"a","n","d">>, <<"o","r">>, <<"t","h","e">>, <<"a">>, <<"a","n">>, <<"i","n">>, <<"o","n">>, <<"a","t">>, <<"f","o","r">>, <<"w","i","t","h">>, <<"b","y">>}

\* re.split(r'[,;\s]+', s) without the empty strings
RECURSIVE SplitTopicAcc(_, _, _)
SplitTopicAcc(s, cur, acc) ==
    IF Len(s) = 0
    THEN IF Len(cur) > 0 THEN Append(acc, cur) ELSE acc
    ELSE IF s[1] \in WHITESPACE \cup {",", ";"}
         THEN SplitTopicAcc(Tail(s), <<>>, IF Len(cur) > 0 THEN Append(acc, cur) ELSE acc)
         ELSE SplitTopicAcc(Tail(s), Append(cur, s[1]), acc)

\* TopicFilter._extract_keywords
ExtractKeywords(topic) ==
    LET words    == SplitTopicAcc(StrLower(topic), <<>>, <<>>)
        keywords == SelectSeq(words, LAMBDA w :
                        Len(StrStrip(w)) > 0 /\ StrStrip(w) \notin STOP_WORDS)
    IN  SelectSeq(keywords, LAMBDA kw : Len(kw) >= 2 \/ IsUpperStr(kw))

\* TopicFilter._create_patterns, patterns[1:]: one pattern for each keyword,
\* then one for each keyword that is an acronym
KeywordPatterns(topic) ==
    LET keywords == ExtractKeywords(topic)
    IN  keywords \o SelectSeq(keywords, LAMBDA w : Len(w) <= 5 /\ IsUpperStr(w))

\* TopicFilter._calculate_topic_weight
TopicWeight(topic) ==
    LET word_count == WordCount(topic)
    IN  IF word_count = 1 THEN Times(ONE, 8, 10)
        ELSE IF word_count = 2 THEN ONE
        ELSE Times(ONE, 12, 10)

\* TopicFilter._score_topic_match
ScoreTopicMatch(text, topic) ==
    LET weight   == TopicWeight(topic)
        keywords == ExtractKeywords(topic)
        patterns == KeywordPatterns(topic)
        keyword_matches ==
            Cardinality({i \in 1..Len(patterns) : SearchWord(patterns[i], StrLower(text))})
        exact    == IF Contains(StrLower(text), StrLower(topic))
                    THEN Times(weight, 8, 10) ELSE 0
        coverage == IF Len(keywords) > 0
                    THEN Times(weight, 6 * keyword_matches, 10 * Len(keywords))
                    ELSE 0
        bonus    == IF keyword_matches >= 2 THEN Times(weight, 2, 10) ELSE 0
    IN  Min(exact + coverage + bonus, ONE)

\* calculate_relevance that reports every topic as matched
CalculateRelevanceAllTopics(article, topics) ==
    LET text      == ArticleText(article)
        processed == Distinct(topics)
        total     == SumSeq([i \in 1..Len(processed) |-> ScoreTopicMatch(text, processed[i])])
    IN  [score          |-> IF Len(topics) > 0
                            THEN Min(total \div Len(topics), ONE)
                            ELSE 0,
         matched_topics |-> processed]

\* TopicFilter.calculate_relevance: 'score' and 'matched_topics'
CalculateRelevance(article, topics) ==
    LET text      == ArticleText(article)
        processed == Distinct(topics)
        scores    == [i \in 1..Len(processed) |-> ScoreTopicMatch(text, processed[i])]
        total     == SumSeq(scores)
    IN  [score          |-> IF Len(topics) > 0
                            THEN Min(total \div Len(topics), ONE)
                            ELSE 0,
         matched_topics |-> SelectSeq(processed, LAMBDA t : ScoreTopicMatch(text, t) > 0)]

\* TopicFilter.filter_articles, line 98
PassesTopicFilter(article, topics, minimum) ==
    CalculateRelevance(article, topics).score >= minimum

(***************************************************************************)
(* RelevanceScorer (filters/relevance.py)                                  *)
(***************************************************************************)
\* the characters of s that are no word characters
NonWord(s) == {c \in Range(s) : ~IsWordChar(c)}

\* set(re.findall(r'\b\w+\b', s))
WordSet(s) == {TokenAt(s, NonWord(s), i) : i \in TokenStarts(s, NonWord(s))}

\* re.findall(r'\b\w+\b', s).count(w)
CountWord(s, w) ==
    Cardinality({i \in TokenStarts(s, NonWord(s)) : TokenAt(s, NonWord(s), i) = w})

\* len(re.findall(r'\b\w+\b', s))
CountWords(s) == Cardinality(TokenStarts(s, NonWord(s)))

\* RelevanceScorer._build_topic_vocabulary
BuildTopicVocabulary(topics) ==
    UNION {WordSet(StrLower(topics[i])) : i \in 1..Len(topics)}

\* RelevanceScorer._calculate_topic_relevance
TopicRelevance(article, topics) ==
    LET text == StrLower(ArticleText(article))
        topic_words == [i \in 1..Len(topics) |-> FindWords(StrLower(topics[i]))]
        total_possible_matches == SumSeq([i \in 1..Len(topics) |-> Len(topic_words[i])])
        topic_matches ==
            SumSeq([i \in 1..Len(topics) |->
                      Cardinality({k \in 1..Len(topic_words[i]) :
                                      SearchWord(topic_words[i][k], text)})])
    IN  IF total_possible_matches = 0 THEN 0
        ELSE Times(ONE, topic_matches, total_possible_matches)

TECH_KEYWORDS == {<<"n","e","w">>, <<"r","e","l","e","a","s","e">>, <<"u","p","d","a","t","e">>, <<"s","e","c","u","r","i","t","y">>, <<"p","e","r","f","o","r","m","a","n","c","e">>, <<"a","n","a","l","y","s","i","s">>, <<"r","e","s","e","a","r","c","h">>, <<"s","t","u","d","y">>, <<"d","e","v","e","l","o","p","m","e","n","t">>}

CLICKBAIT_WORDS == {<<"t","h","i","n","g","s">>, <<"w","a","y","s">>, <<"r","e","a","s","o","n","s">>}

CLICKBAIT_PHRASES == {<<"y","o","u"," ","w","o","n","'","t"," ","b","e","l","i","e","v","e">>, <<"s","h","o","c","k","i","n","g">>, <<"a","m","a","z","i","n","g">>, <<"i","n","c","r","e","d","i","b","l","e">>}

\* re.search(r'\d+\s+(things|ways|reasons)', s)
SearchCountedList(s) ==
    \E i \in 1..Len(s) : \E j \in (i + 1)..Len(s) :
        /\ s[i] \in DIGITS
        /\ \A k \in (i + 1)..j : IsSpace(s[k])
        /\ \E w \in CLICKBAIT_WORDS : StartsWith(SubSeq(s, j + 1, Len(s)), w)

\* RelevanceScorer._score_title_quality
ScoreTitleQuality(title) ==
    LET title_length == WordCount(title)
        length_score == IF 5 <= title_length /\ title_length <= 15 THEN Times(ONE, 5, 10)
                        ELSE IF 3 <= title_length /\ title_length <= 20 THEN Times(ONE, 3, 10)
                        ELSE Times(ONE, 1, 10)
        bonus   == IF \E keyword \in TECH_KEYWORDS : Contains(StrLower(title), keyword)
                   THEN Times(ONE, 1, 10) ELSE 0
        penalty == IF \/ SearchCountedList(StrLower(title))
                      \/ \E phrase \in CLICKBAIT_PHRASES : Contains(StrLower(title), phrase)
                   THEN Times(ONE, 2, 10) ELSE 0
    IN  Max(0, Min(ONE, length_score + bonus - penalty))

CODE_INDICATORS == {<<"(",")">>, <<"{","}">>, <<"[","]">>, <<"f","u","n","c","t","i","o","n">>, <<"c","l","a","s","s">>, <<"d","e","f"," ">>, <<"i","m","p","o","r","t"," ">>}

\* RelevanceScorer._score_content_quality
ScoreContentQuality(content, vocabulary) ==
    IF Len(StrStrip(content)) = 0 THEN Times(ONE, 2, 10)
    ELSE LET word_count == WordCount(content)
             length_score == IF word_count >= 100 THEN Times(ONE, 5, 10)
                             ELSE IF word_count >= 50 THEN Times(ONE, 3, 10)
                             ELSE Times(ONE, 1, 10)
             lowered == StrLower(content)
             tech_terms == Cardinality({i \in TokenStarts(lowered, WHITESPACE) :
                                           TokenAt(lowered, WHITESPACE, i) \in vocabulary})
             vocabulary_score == IF tech_terms > 0
                                 THEN Min(Times(ONE, 3, 10), tech_terms * Times(ONE, 5, 100))
                                 ELSE 0
             code_score == IF \E indicator \in CODE_INDICATORS : Contains(content, indicator)
                           THEN Times(ONE, 2, 10) ELSE 0
         IN  Min(ONE, length_score + vocabulary_score + code_score)

\* RelevanceScorer._calculate_content_quality
ContentQuality(article, vocabulary) ==
    Times(ScoreTitleQuality(article.title), 4, 10)
    + Times(ScoreContentQuality(article.raw_content, vocabulary), 6, 10)

\* RelevanceScorer._calculate_freshness_score; t is datetime.now(), one tick
\* of the clock is 24 hours
FreshnessScore(article, t) ==
    IF article.discovered_date[1] # "iso" THEN Times(ONE, 5, 10)
    ELSE LET age_hours == (t - article.discovered_date[2]) * 24
         IN  IF age_hours <= 24 THEN ONE
             ELSE IF age_hours <= 72 THEN Times(ONE, 8, 10)
             ELSE IF age_hours <= 168 THEN Times(ONE, 6, 10)
             ELSE IF age_hours <= 720 THEN Times(ONE, 4, 10)
             ELSE Times(ONE, 2, 10)

\* RelevanceScorer._calculate_source_score
SourceScore(article) ==
    CASE article.source = "hackernews" -> Times(ONE, 9, 10)
      [] article.source = "lwn"        -> Times(ONE, 95, 100)
      [] article.source = "github"     -> Times(ONE, 8, 10)
      [] article.source = "arxiv"      -> ONE
      [] OTHER                         -> Times(ONE, 5, 10)

\* RelevanceScorer._build_corpus_stats: total_documents and document_frequencies
BuildCorpusStats(corpus) ==
    LET words == UNION {WordSet(StrLower(ArticleText(corpus[i]))) : i \in 1..Len(corpus)}
    IN  [total_documents      |-> Len(corpus),
         document_frequencies |->
             [w \in words |->
                 Cardinality({i \in 1..Len(corpus) :
                                 w \in WordSet(StrLower(ArticleText(corpus[i])))})]]

NoCorpusStats == [total_documents |-> 0, document_frequencies |-> <<>>]

\* RelevanceScorer._calculate_idf
Idf(word, stats) ==
    IF word \notin DOMAIN stats.document_frequencies \/ stats.total_documents = 0
    THEN 0
    ELSE Log(stats.total_documents, stats.document_frequencies[word])

RECURSIVE SumOver(_, _)
SumOver(S, f) ==
    IF S = {} THEN 0
    ELSE LET x == CHOOSE x \in S : TRUE IN f[x] + SumOver(S \ {x}, f)

\* the statistics _calculate_tfidf_score works with (lines 199-200)
StatsInUse(stats, corpus) ==
    IF DOMAIN stats.document_frequencies = {} THEN BuildCorpusStats(corpus) ELSE stats

\* RelevanceScorer._calculate_tfidf_score (lines 202-215)
TfidfScore(article, stats, vocabulary) ==
    LET article_text == StrLower(ArticleText(article))
        present == {w \in vocabulary : w \in WordSet(article_text)}
        tfidf == [w \in present |->
                     Times(Idf(w, stats), CountWord(article_text, w), CountWords(article_text))]
        tfidf_score == SumOver(present, tfidf)
    IN  Min(ONE, IF vocabulary # {} THEN tfidf_score \div Cardinality(vocabulary) ELSE 0)

\* calculate_comprehensive_score, lines 55-59: what the corpus adds
CorpusPart(article, corpus, stats, vocabulary) ==
    IF Len(corpus) > 0
    THEN Times(TfidfScore(article, StatsInUse(stats, corpus), vocabulary), 2, 10)
    ELSE Times(ONE, 2, 10)

\* RelevanceScorer.calculate_comprehensive_score; corpus is all_articles,
\* empty when there is none; stats are the scorer's statistics, t the clock
ComprehensiveScore(article, corpus, stats, topics, t) ==
    LET vocabulary == BuildTopicVocabulary(topics)
        total_score ==
            Times(TopicRelevance(article, topics), 4, 10)
            + Times(ContentQuality(article, vocabulary), 2, 10)
            + Times(FreshnessScore(article, t), 1, 10)
            + Times(SourceScore(article), 1, 10)
            + CorpusPart(article, corpus, stats, vocabulary)
    IN  Min(total_score, ONE)

\* calculate_comprehensive_score raises on the article: _score_title_quality,
\* line 106, calls title.split(), an AttributeError when the title is None
ScoringRaises(article) == article.title = None

\* the assignment that adds the score to what the article carries
AssignScoreAdded(old, score) == old + score

\* score_articles_batch, line 246: article.relevance_score = score
AssignScore(old, score) == score

\* list.sort(key=lambda a: a.relevance_score, reverse=True) of a list of
\* positions in batch: a stable sort, the highest score first
RECURSIVE SortByScore(_, _)
SortByScore(batch, list) ==
    IF Len(list) <= 1 THEN list
    ELSE LET rest == SortByScore(batch, Tail(list))
             x    == list[1]
             \* x goes before the first element of rest it does not beat
             after == {k \in 1..Len(rest) :
                          batch[rest[k]].relevance_score > batch[x].relevance_score}
             n    == Cardinality({k \in 1..Len(rest) :
                          \A m \in 1..k : m \in after})
         IN  SubSeq(rest, 1, n) \o <<x>> \o SubSeq(rest, n + 1, Len(rest))

(***************************************************************************)
(* The duplicate detector, called batch after batch                        *)
(***************************************************************************)
\* no batch is submitted again
NoResubmit ==
    /\ first_pass = <<>>
    /\ second_pass = ""

\* no article is being summarized
NoSummarizer ==
    /\ max_workers = MaxWorkers
    /\ already_processed = <<>>
    /\ task_state = <<>>
    /\ processed_articles = <<>>
    /\ failed_articles = <<>>
    /\ main_sleeps = 0
    /\ since_completion = -1

\* no call is being retried
NoRetry ==
    /\ max_retries = 0
    /\ attempt = 0
    /\ calls = 0
    /\ errors = <<>>
    /\ waits = <<>>

\* no file is being saved
NoFile ==
    /\ backup_enabled = TRUE
    /\ target_file = None
    /\ temp_file = None
    /\ backup_file = None
    /\ pending = <<>>
    /\ prior_target = None
    /\ failed_step = ""
    /\ loaded = <<>>

\* the state outside the detector, for the specifications that use no pipeline
NoPipeline ==
    /\ relevant_articles = <<>>
    /\ final_articles = <<>>
    /\ saved_articles = <<>>
    /\ corpus_stats = NoCorpusStats
    /\ last_call = <<>>
    /\ raised = ""
    /\ returned = <<>>
    /\ NoResubmit
    /\ NoSummarizer
    /\ NoRetry
    /\ NoFile
    /\ stored_urls = <<>>
    /\ prev_accepted = <<>>

\* the empty locals of find_duplicates_in_batch
NoBatch ==
    /\ articles = <<>>
    /\ unique_articles = <<>>
    /\ duplicate_articles = <<>>
    /\ seen_hashes = {}
    /\ known_at_entry = {}

DedupInit ==
    /\ duplicate_threshold \in Thresholds
    /\ interest_topics = <<>>
    /\ min_relevance_score = DefaultMinRelevance
    /\ max_articles_per_day = DefaultMaxArticles
    /\ processed_urls = <<>>
    /\ now = 0
    /\ pc = "idle"
    /\ handled = 0
    /\ NoBatch
    /\ NoPipeline

\* time passes between two calls of the detector or two runs of the pipeline
\* (a batch is handled within one tick of the clock)
Tick ==
    /\ pc = "idle"
    /\ now < MaxClock
    /\ now' = now + 1
    /\ UNCHANGED <<componentVars, returned, configVars, processed_urls, pc, handled,
                   batchVars, selectionVars, scorerVars, storeVars>>

\* find_duplicates_in_batch is entered (lines 55-57)
FindDuplicatesBegin ==
    /\ pc = "idle"
    /\ pc' = "dedup"
    /\ articles' = <<>>
    /\ unique_articles' = <<>>
    /\ duplicate_articles' = <<>>
    /\ seen_hashes' = {}
    /\ known_at_entry' = DOMAIN processed_urls
    /\ returned' = <<>>
    /\ UNCHANGED <<componentVars, configVars, processed_urls, now, handled,
                   selectionVars, scorerVars, storeVars>>

\* one round of the loop of find_duplicates_in_batch (lines 59-90) on the
\* next article of the input, which the crawler created from c
FindDuplicatesStep(c) ==
    /\ pc = "dedup"
    /\ handled < MaxArticles
    /\ handled' = handled + 1
    /\ LET article == ArticleCreate(c[1], c[2], c[3], c[4], now)
           n       == Len(articles) + 1
       IN  /\ articles' = Append(articles, article)
           /\ IF IsDuplicate(processed_urls, seen_hashes, articles,
                             unique_articles, article, duplicate_threshold)
              THEN /\ duplicate_articles' = RejectDuplicate(duplicate_articles, n)
                   /\ UNCHANGED <<unique_articles, seen_hashes, processed_urls>>
              ELSE /\ unique_articles' = AcceptUnique(unique_articles, n)
                   /\ seen_hashes' = seen_hashes \cup {article.content_hash}
                   /\ processed_urls' = MarkUrlProcessed(processed_urls, article.url,
                                                         article.content_hash, now)
                   /\ UNCHANGED duplicate_articles
    /\ UNCHANGED <<componentVars, returned, configVars, now, pc, known_at_entry,
                   selectionVars, scorerVars, storeVars>>

\* find_duplicates_in_batch returns (lines 92-93)
FindDuplicatesReturn ==
    /\ pc = "dedup"
    /\ pc' = "idle"
    /\ UNCHANGED <<componentVars, returned, configVars, processed_urls, now, handled,
                   batchVars, selectionVars, scorerVars, storeVars>>

\* cleanup_old_urls(days)
CleanupOldUrls(days) ==
    /\ pc = "idle"
    /\ processed_urls' = [u \in DOMAIN processed_urls
                                \ OldUrls(processed_urls, days, now)
                             |-> processed_urls[u]]
    /\ returned' = [days   |-> days,
                    result |-> Cardinality(OldUrls(processed_urls, days, now))]
    /\ UNCHANGED <<componentVars, configVars, now, pc, handled, batchVars,
                   selectionVars, scorerVars, storeVars>>

DedupNext ==
    \/ Tick
    \/ FindDuplicatesBegin
    \/ \E c \in Crawlable \cup CrawlableWithoutContent : FindDuplicatesStep(c)
    \/ FindDuplicatesReturn
    \/ \E days \in CleanupDays : CleanupOldUrls(days)

\* one detector, deduplicating batch after batch
SpecDedup == DedupInit /\ [][DedupNext]_vars

(***************************************************************************)
(* A batch handed to the detector twice                                    *)
(***************************************************************************)
\* the map object of the caller: load_processed_urls (line 22) keeps the
\* reference to it, so that it is the object mark_url_processed writes to
CallerMap == processed_urls

\* the length of the batches that are submitted twice
ResubmitLen == MaxArticles \div 2

ResubmitInit ==
    /\ duplicate_threshold \in Thresholds
    /\ interest_topics = <<>>
    /\ min_relevance_score = DefaultMinRelevance
    /\ max_articles_per_day = DefaultMaxArticles
    /\ processed_urls = <<>>
    /\ now = 0
    /\ pc = "idle"
    /\ handled = 0
    /\ NoBatch
    /\ NoPipeline

\* the batch is handed to a detector with an empty map
FirstPassBegin ==
    /\ articles = <<>>
    /\ FindDuplicatesBegin

\* a round of the loop in the first call, on a new article
FirstPassStep(c) ==
    /\ first_pass = <<>>
    /\ Len(articles) < ResubmitLen
    /\ FindDuplicatesStep(c)

\* a round of the loop in the second call, on the next article of the batch
SecondPassStep ==
    /\ first_pass # <<>>
    /\ Len(articles) < Len(first_pass.articles)
    /\ LET a == first_pass.articles[Len(articles) + 1]
       IN  FindDuplicatesStep(<<a.title, a.url, a.source, a.raw_content>>)

\* the call returns when the loop has handled the batch
PassReturn ==
    /\ first_pass # <<>> => Len(articles) = Len(first_pass.articles)
    /\ FindDuplicatesReturn

\* the same detector is handed the same batch again (lines 55-57)
ResubmitBegin ==
    /\ pc = "idle"
    /\ first_pass = <<>>
    /\ Len(articles) > 0
    /\ first_pass' = [articles           |-> articles,
                      unique_articles    |-> unique_articles,
                      duplicate_articles |-> duplicate_articles]
    /\ second_pass' = "same detector"
    /\ pc' = "dedup"
    /\ articles' = <<>>
    /\ unique_articles' = <<>>
    /\ duplicate_articles' = <<>>
    /\ seen_hashes' = {}
    /\ known_at_entry' = DOMAIN processed_urls
    /\ UNCHANGED <<configVars, processed_urls, now, handled, selectionVars,
                   scorerVars, returned, storeVars, fileVars, summarizerVars, retryVars>>

\* a new detector loads the map object the caller gave the first one
\* (lines 15-23) and is handed the same batch (lines 55-57)
ReloadAndResubmit ==
    /\ pc = "idle"
    /\ first_pass = <<>>
    /\ Len(articles) > 0
    /\ first_pass' = [articles           |-> articles,
                      unique_articles    |-> unique_articles,
                      duplicate_articles |-> duplicate_articles]
    /\ second_pass' = "new detector"
    /\ processed_urls' = CallerMap
    /\ pc' = "dedup"
    /\ articles' = <<>>
    /\ unique_articles' = <<>>
    /\ duplicate_articles' = <<>>
    /\ seen_hashes' = {}
    /\ known_at_entry' = DOMAIN CallerMap
    /\ UNCHANGED <<configVars, now, handled, selectionVars, scorerVars, returned,
                   storeVars, fileVars, summarizerVars, retryVars>>

ResubmitNext ==
    \/ FirstPassBegin
    \/ \E c \in Crawlable \cup CrawlableWithoutContent : FirstPassStep(c)
    \/ SecondPassStep
    \/ PassReturn
    \/ ResubmitBegin
    \/ ReloadAndResubmit

\* one batch, handed to the detector twice
SpecResubmit == ResubmitInit /\ [][ResubmitNext]_vars

(***************************************************************************)
(* The relevance scorer, called by a client                                *)
(***************************************************************************)
\* the values of interest_topics of a scorer: none, "ab", and "ab" with "p q"
TopicLists ==
    { <<>>, << <<"a","b">> >>, << <<"a","b">>, <<"p"," ","q">> >> }

\* an Article as a client hands it to the scorer: discovered_date is any text
\* and relevance_score is what an earlier stage left there
ArticleOf(title, source, discovered_date, raw_content, relevance_score) ==
    [ArticleCreate(title, "u1", source, raw_content, 0)
        EXCEPT !.discovered_date = discovered_date,
               !.relevance_score = relevance_score]

\* the articles a client scores
Scorable ==
    { ArticleOf(<<>>, "blog", NotADate, <<>>, 0),
      ArticleOf(<<"a","b">>, "arxiv", IsoFormat(0), <<"a","b"," ","a","b"," ","p">>, ONE),
      ArticleOf(<<"N","e","w"," ","a","b"," ","p"," ","q"," ","r">>, "lwn",
                IsoFormat(1), <<"d","e","f"," ","q","(",")">>, Times(ONE, 9, 10)),
      ArticleOf(None, "lwn", IsoFormat(0), <<"a","b">>, 0) }

\* the lists of articles a client passes: a batch, or a corpus (all_articles);
\* the empty list is also all_articles = None
Corpora == UNION {[1..n -> Scorable] : n \in 0..MaxCorpus}

\* score_articles_batch, lines 245-246: the place in the list of the first
\* article the loop raises on, Len(list) + 1 when there is none
FirstRaising(arts, list) ==
    IF \E i \in 1..Len(list) : ScoringRaises(arts[list[i]])
    THEN CHOOSE i \in 1..Len(list) :
            /\ ScoringRaises(arts[list[i]])
            /\ \A j \in 1..(i - 1) : ~ScoringRaises(arts[list[j]])
    ELSE Len(list) + 1

\* score_articles_batch on the articles of arts at the positions of list,
\* lines 242-246: the articles as the loop leaves them, be it at its end or
\* at the article it raises on
ScoredArticles(arts, list, topics, t) ==
    LET corpus == [i \in 1..Len(list) |-> arts[list[i]]]
        stats  == BuildCorpusStats(corpus)
        reached == {list[i] : i \in 1..(FirstRaising(arts, list) - 1)}
    IN  [k \in 1..Len(arts) |->
            IF k \in reached
            THEN [arts[k] EXCEPT !.relevance_score =
                     AssignScore(@, ComprehensiveScore(arts[k], corpus, stats, topics, t))]
            ELSE arts[k]]

ScoreInit ==
    /\ duplicate_threshold = [num |-> 9, den |-> 10]
    /\ interest_topics \in TopicLists
    /\ min_relevance_score = DefaultMinRelevance
    /\ max_articles_per_day = DefaultMaxArticles
    /\ processed_urls = <<>>
    /\ now = 0
    /\ pc = "scorer"
    /\ handled = 0
    /\ NoBatch
    /\ NoPipeline

\* calculate_comprehensive_score(article, all_articles); the client keeps the
\* result of its last call only
CalculateComprehensiveScore(article, all_articles) ==
    /\ pc = "scorer"
    /\ IF ScoringRaises(article)
       THEN /\ last_call' = <<>>
            /\ raised' = "AttributeError"
            /\ UNCHANGED corpus_stats
       ELSE /\ last_call' = [article      |-> article,
                             all_articles |-> all_articles,
                             score        |-> ComprehensiveScore(article, all_articles,
                                                 corpus_stats, interest_topics, now)]
            /\ corpus_stats' = IF Len(all_articles) > 0
                               THEN StatsInUse(corpus_stats, all_articles)
                               ELSE corpus_stats
            /\ raised' = ""
    /\ articles' = <<>>
    /\ relevant_articles' = <<>>
    /\ UNCHANGED <<componentVars, returned, configVars, processed_urls, now, pc,
                   handled, unique_articles, duplicate_articles, seen_hashes,
                   known_at_entry, final_articles, saved_articles, storeVars>>

\* score_articles_batch(list): the articles are scored and sorted in place;
\* an error of the scoring of an article leaves the loop and the method, the
\* list unsorted; line 251 reads list[0] and raises IndexError for the empty
\* list
ScoreArticlesBatch(list) ==
    /\ pc = "scorer"
    /\ articles' = ScoredArticles(list, [i \in 1..Len(list) |-> i], interest_topics, now)
    /\ relevant_articles' =
           IF FirstRaising(list, [i \in 1..Len(list) |-> i]) <= Len(list)
           THEN [i \in 1..Len(list) |-> i]
           ELSE SortByScore(articles', [i \in 1..Len(list) |-> i])
    /\ corpus_stats' = BuildCorpusStats(list)
    /\ raised' = IF FirstRaising(list, [i \in 1..Len(list) |-> i]) <= Len(list)
                 THEN "AttributeError"
                 ELSE IF Len(list) = 0 THEN "IndexError" ELSE ""
    /\ last_call' = <<>>
    /\ UNCHANGED <<componentVars, returned, configVars, processed_urls, now, pc,
                   handled, unique_articles, duplicate_articles, seen_hashes,
                   known_at_entry, final_articles, saved_articles, storeVars>>

ScoreNext ==
    \/ \E article \in Scorable : \E all_articles \in Corpora :
          CalculateComprehensiveScore(article, all_articles)
    \/ \E list \in Corpora : ScoreArticlesBatch(list)

\* one scorer and its client
SpecScore == ScoreInit /\ [][ScoreNext]_vars

(***************************************************************************)
(* The score threshold, asked for by a client                              *)
(***************************************************************************)
\* the lists a client asks a threshold for, and the values of target_count
\* (50 is the default)
ScoredLists == UNION {[1..n -> Scorable] : n \in 0..MaxScored}

DefaultTargetCount == 50

TargetCounts == 0..MaxScored \cup {DefaultTargetCount}

\* sorted(scores, reverse=True) of the relevance scores of the list
SortedScores(list) ==
    LET order == SortByScore(list, [i \in 1..Len(list) |-> i])
    IN  [i \in 1..Len(list) |-> list[order[i]].relevance_score]

\* the threshold that takes the score after the target_count-th
SuggestedThresholdNext(list, target_count) ==
    LET scores == SortedScores(list)
    IN  IF Len(scores) <= target_count THEN 0 ELSE scores[target_count + 1]

\* suggest_score_threshold, lines 279-284; scores[target_count - 1] with
\* target_count = 0 is scores[-1], the last score
SuggestedThreshold(list, target_count) ==
    LET scores == SortedScores(list)
    IN  IF Len(scores) <= target_count THEN 0
        ELSE scores[IF target_count >= 1 THEN target_count
                                         ELSE Len(scores) + target_count]

ThresholdInit ==
    /\ duplicate_threshold = [num |-> 9, den |-> 10]
    /\ interest_topics = <<>>
    /\ min_relevance_score = DefaultMinRelevance
    /\ max_articles_per_day = DefaultMaxArticles
    /\ processed_urls = <<>>
    /\ now = 0
    /\ pc = "threshold_client"
    /\ handled = 0
    /\ NoBatch
    /\ NoPipeline

\* suggest_score_threshold(list, target_count); the list is left as it is
SuggestScoreThreshold(list, target_count) ==
    /\ pc = "threshold_client"
    /\ articles' = list
    /\ relevant_articles' = <<>>
    /\ returned' = [target_count |-> target_count,
                    result       |-> SuggestedThreshold(list, target_count)]
    /\ last_call' = <<>>
    /\ raised' = ""
    /\ UNCHANGED <<componentVars, configVars, processed_urls, now, pc, handled,
                   unique_articles, duplicate_articles, seen_hashes, known_at_entry,
                   final_articles, saved_articles, corpus_stats, storeVars>>

ThresholdNext ==
    \E list \in ScoredLists : \E target_count \in TargetCounts :
       SuggestScoreThreshold(list, target_count)

\* suggest_score_threshold and its client: the method reads its arguments only
SpecThreshold == ThresholdInit /\ [][ThresholdNext]_vars

(***************************************************************************)
(* The topic filter, called by a client                                    *)
(***************************************************************************)
\* the values of interest_topics of a filter: those of a scorer, and "ab" twice
FilterTopicLists == TopicLists \cup { << <<"a","b">>, <<"a","b">> >> }

\* the values of min_relevance_score of a filter: 0.0, the default and 1.0
FilterMinimums == {0, DefaultMinRelevance, ONE}

\* filter_articles, lines 95-102, on the articles of arts at the positions of
\* list: the articles as the loop leaves them
FilteredArticles(arts, list, topics, minimum) ==
    [k \in 1..Len(arts) |->
        IF k \in Range(list) /\ PassesTopicFilter(arts[k], topics, minimum)
        THEN [arts[k] EXCEPT
                 !.relevance_score = CalculateRelevance(arts[k], topics).score,
                 !.related_topics  = CalculateRelevance(arts[k], topics).matched_topics]
        ELSE arts[k]]

FilterInit ==
    /\ duplicate_threshold = [num |-> 9, den |-> 10]
    /\ interest_topics \in FilterTopicLists
    /\ min_relevance_score \in FilterMinimums
    /\ max_articles_per_day = DefaultMaxArticles
    /\ processed_urls = <<>>
    /\ now = 0
    /\ pc = "filter_client"
    /\ handled = 0
    /\ NoBatch
    /\ NoPipeline

\* filter_articles(list): the relevant articles, in the order of the list
FilterArticlesOf(list) ==
    /\ pc = "filter_client"
    /\ articles' = FilteredArticles(list, [i \in 1..Len(list) |-> i], interest_topics,
                                    min_relevance_score)
    /\ relevant_articles' =
           SelectSeq([i \in 1..Len(list) |-> i], LAMBDA k :
               PassesTopicFilter(list[k], interest_topics, min_relevance_score))
    /\ raised' = ""
    /\ UNCHANGED <<componentVars, returned, configVars, processed_urls, now, pc,
                   handled, unique_articles, duplicate_articles, seen_hashes,
                   known_at_entry, final_articles, saved_articles, corpus_stats,
                   last_call, storeVars>>

\* update_topics(new_topics); the client keeps the result of its last call only
UpdateTopics(new_topics) ==
    /\ pc = "filter_client"
    /\ interest_topics' = new_topics
    /\ articles' = <<>>
    /\ relevant_articles' = <<>>
    /\ raised' = ""
    /\ UNCHANGED <<componentVars, returned, duplicate_threshold, min_relevance_score,
                   max_articles_per_day, processed_urls, now, pc, handled,
                   unique_articles, duplicate_articles, seen_hashes, known_at_entry,
                   final_articles, saved_articles, corpus_stats, last_call, storeVars>>

FilterNext ==
    \/ \E list \in Corpora : FilterArticlesOf(list)
    \/ \E new_topics \in FilterTopicLists : UpdateTopics(new_topics)

\* one topic filter and its client
SpecFilter == FilterInit /\ [][FilterNext]_vars

(***************************************************************************)
(* The daily run (scripts/daily_crawl.py)                                  *)
(***************************************************************************)
\* the configurations the runs are made with: validate_config accepts them
DailyConfigs ==
    { [interest_topics      |-> << <<"a","b">>, <<"p"," ","q">> >>,
       min_relevance_score  |-> Times(ONE, 3, 10),
       max_articles_per_day |-> 1,
       duplicate_threshold  |-> [num |-> 9, den |-> 10]],
      [interest_topics      |-> << <<"a","b">>, <<"p"," ","q">> >>,
       min_relevance_score  |-> Times(ONE, 45, 100),
       max_articles_per_day |-> 2,
       duplicate_threshold  |-> [num |-> 1, den |-> 2]],
      [interest_topics      |-> << <<"a","b">>, <<"p"," ","q">> >>,
       min_relevance_score  |-> 0,
       max_articles_per_day |-> 2,
       duplicate_threshold  |-> [num |-> 9, den |-> 10]] }

\* configurations with no topic, with a min_relevance_score or with a
\* duplicate_threshold outside of [0, 1]
InvalidConfigs ==
    { [interest_topics      |-> <<>>,
       min_relevance_score  |-> DefaultMinRelevance,
       max_articles_per_day |-> DefaultMaxArticles,
       duplicate_threshold  |-> [num |-> 9, den |-> 10]],
      [interest_topics      |-> << <<"a","b">> >>,
       min_relevance_score  |-> Times(ONE, -1, 10),
       max_articles_per_day |-> DefaultMaxArticles,
       duplicate_threshold  |-> [num |-> 9, den |-> 10]],
      [interest_topics      |-> << <<"a","b">> >>,
       min_relevance_score  |-> Times(ONE, 11, 10),
       max_articles_per_day |-> DefaultMaxArticles,
       duplicate_threshold  |-> [num |-> 9, den |-> 10]],
      [interest_topics      |-> << <<"a","b">> >>,
       min_relevance_score  |-> DefaultMinRelevance,
       max_articles_per_day |-> DefaultMaxArticles,
       duplicate_threshold  |-> [num |-> 11, den |-> 10]] }

\* a configuration with a negative max_articles_per_day
NegativeLimitConfig ==
    [interest_topics      |-> << <<"a","b">>, <<"p"," ","q">> >>,
     min_relevance_score  |-> Times(ONE, 3, 10),
     max_articles_per_day |-> -1,
     duplicate_threshold  |-> [num |-> 9, den |-> 10]]

\* validate_config: the message of the ConfigError it raises, "" when it
\* returns (the websites and the LLM settings are valid)
ValidateConfig(topics, minimum, threshold) ==
    IF Len(topics) = 0
    THEN "At least one interest topic must be specified"
    ELSE IF ~(0 <= minimum /\ minimum <= ONE)
    THEN "min_relevance_score must be between 0 and 1"
    ELSE IF ~(0 <= threshold.num /\ threshold.num <= threshold.den)
    THEN "duplicate_threshold must be between 0 and 1"
    ELSE ""

\* what the summarizer makes of an article, and what a failure leaves
GeneratedSummary == <<"s","u","m","m","a","r","y">>

FailedSummary ==
    <<"S","u","m","m","a","r","y"," ","g","e","n","e","r","a","t","i","o","n",
      " ","f","a","i","l","e","d">>

\* the orders in which the elements of the list can come
Orders(list) == {q \in [1..Len(list) -> Range(list)] : Range(q) = Range(list)}

\* main, lines 86-89: the scored articles that reach the threshold
AboveThreshold(arts, list, minimum) ==
    SelectSeq(list, LAMBDA k : arts[k].relevance_score >= minimum)

\* the cap that keeps the last m of the list
LimitArticlesLast(list, m) ==
    IF Len(list) > m THEN SubSeq(list, Len(list) - m + 1, Len(list)) ELSE list

\* main, lines 94-95: the cap of max_articles_per_day
LimitArticles(list, m) ==
    IF Len(list) > m
    THEN SubSeq(list, 1, IF m >= 0 THEN m ELSE Max(0, Len(list) + m))
    ELSE list

\* process_articles, lines 34-49: the list it returns when the workers
\* complete in the given order and the articles of failed raise
ProcessedArticles(arts, list, order, failed) ==
    LET already == SelectSeq(list, LAMBDA k : Len(StrStrip(arts[k].summary)) > 0)
    IN  IF Len(order) = 0 THEN list
        ELSE SelectSeq(order, LAMBDA k : k \notin failed)
             \o SelectSeq(order, LAMBDA k : k \in failed)
             \o already

DailyInit ==
    /\ \E c \in DailyConfigs \cup InvalidConfigs \cup {NegativeLimitConfig} :
          /\ duplicate_threshold = c.duplicate_threshold
          /\ interest_topics = c.interest_topics
          /\ min_relevance_score = c.min_relevance_score
          /\ max_articles_per_day = c.max_articles_per_day
    /\ processed_urls = <<>>
    /\ now = 0
    /\ pc = "idle"
    /\ handled = 0
    /\ NoBatch
    /\ NoPipeline

\* main, lines 26-29 and 141-143: validate_config raises and the run ends
RunRejected ==
    /\ pc = "idle"
    /\ ValidateConfig(interest_topics, min_relevance_score, duplicate_threshold) # ""
    /\ raised' = "ConfigError"
    /\ UNCHANGED <<componentVars, configVars, processed_urls, now, pc, handled,
                   batchVars, selectionVars, corpus_stats, last_call, returned,
                   storeVars>>

\* main, lines 26-58: validate_config returns; a run starts with a new
\* detector, which loads the stored map, a new filter and a new scorer, and
\* crawls
RunBegin ==
    /\ pc = "idle"
    /\ ValidateConfig(interest_topics, min_relevance_score, duplicate_threshold) = ""
    /\ pc' = "dedup"
    /\ prev_accepted' = [u \in {articles[k].url : k \in Range(unique_articles)}
                            |-> processed_urls[u]]
    /\ processed_urls' = stored_urls
    /\ known_at_entry' = DOMAIN stored_urls
    /\ articles' = <<>>
    /\ unique_articles' = <<>>
    /\ duplicate_articles' = <<>>
    /\ seen_hashes' = {}
    /\ relevant_articles' = <<>>
    /\ final_articles' = <<>>
    /\ saved_articles' = <<>>
    /\ corpus_stats' = NoCorpusStats
    /\ UNCHANGED <<componentVars, returned, configVars, now, handled, last_call, raised,
                   stored_urls>>

\* main, lines 62-69: with no raw article the run ends; otherwise
\* find_duplicates_in_batch returns and the topic filter is next
DeduplicationDone ==
    /\ pc = "dedup"
    /\ pc' = IF Len(articles) = 0 THEN "idle" ELSE "filter"
    /\ UNCHANGED <<componentVars, returned, configVars, processed_urls, now, handled,
                   batchVars, selectionVars, scorerVars, storeVars>>

\* main, lines 73-80: filter_articles(unique_articles); with no relevant
\* article the run ends
FilterArticles ==
    /\ pc = "filter"
    /\ articles' = FilteredArticles(articles, unique_articles, interest_topics,
                                    min_relevance_score)
    /\ relevant_articles' =
           SelectSeq(unique_articles, LAMBDA k :
               PassesTopicFilter(articles[k], interest_topics, min_relevance_score))
    /\ pc' = IF Len(relevant_articles') = 0 THEN "idle" ELSE "score"
    /\ UNCHANGED <<componentVars, returned, configVars, processed_urls, now, handled,
                   unique_articles, duplicate_articles, seen_hashes, known_at_entry,
                   final_articles, saved_articles, scorerVars, storeVars>>

\* main, line 83: score_articles_batch(relevant_articles); an error it raises
\* ends the run (lines 144-148)
ScoreRelevantArticles ==
    /\ pc = "score"
    /\ articles' = ScoredArticles(articles, relevant_articles, interest_topics, now)
    /\ corpus_stats' = BuildCorpusStats([i \in 1..Len(relevant_articles)
                                            |-> articles[relevant_articles[i]]])
    /\ IF FirstRaising(articles, relevant_articles) <= Len(relevant_articles)
       THEN /\ pc' = "idle"
            /\ raised' = "AttributeError"
            /\ UNCHANGED relevant_articles
       ELSE /\ pc' = "select"
            /\ relevant_articles' = SortByScore(articles', relevant_articles)
            /\ UNCHANGED raised
    /\ UNCHANGED <<componentVars, returned, configVars, processed_urls, now, handled,
                   unique_articles, duplicate_articles, seen_hashes, known_at_entry,
                   final_articles, saved_articles, last_call, storeVars>>

\* main, lines 86-99: the threshold and the cap; with no final article the
\* run ends
SelectFinalArticles ==
    /\ pc = "select"
    /\ final_articles' = LimitArticles(AboveThreshold(articles, relevant_articles,
                                                      min_relevance_score),
                                       max_articles_per_day)
    /\ pc' = IF Len(final_articles') = 0 THEN "idle" ELSE "summarize"
    /\ UNCHANGED <<componentVars, returned, configVars, processed_urls, now, handled,
                   batchVars, relevant_articles, saved_articles, scorerVars, storeVars>>

\* main, lines 100-108: process_articles(final_articles), the workers
\* completing in some order and some of them raising, then
\* save_daily_articles and save_processed_urls
SummarizeAndSave ==
    /\ pc = "summarize"
    /\ pc' = "idle"
    /\ \E order \in Orders(SelectSeq(final_articles,
                              LAMBDA k : Len(StrStrip(articles[k].summary)) = 0)) :
          \E failed \in SUBSET Range(order) :
             /\ saved_articles' = ProcessedArticles(articles, final_articles, order, failed)
             /\ articles' = [k \in 1..Len(articles) |->
                                IF k \in Range(order)
                                THEN [articles[k] EXCEPT !.summary =
                                         IF k \in failed THEN FailedSummary
                                                         ELSE GeneratedSummary]
                                ELSE articles[k]]
    /\ stored_urls' = processed_urls
    /\ UNCHANGED <<componentVars, returned, configVars, processed_urls, now, handled,
                   unique_articles, duplicate_articles, seen_hashes, known_at_entry,
                   relevant_articles, final_articles, scorerVars, prev_accepted>>

Next ==
    \/ Tick
    \/ RunRejected
    \/ RunBegin
    \/ \E c \in Crawlable : FindDuplicatesStep(c)
    \/ DeduplicationDone
    \/ FilterArticles
    \/ ScoreRelevantArticles
    \/ SelectFinalArticles
    \/ SummarizeAndSave

\* the daily runs, one after the other
Spec == DailyInit /\ [][Next]_vars

(***************************************************************************)
(* The content processor, called by a client                               *)
(***************************************************************************)
\* the articles a client has summarized: some have no summary, some a blank
\* one, some have a summary already
SummaryChoices == { <<>>, <<" ">>, <<"o","l","d">> }

SummarizableTitles == << <<"a","b">>, <<"x","y","z">>, <<"a","c">>, <<"r">> >>

SummarizableLists ==
    UNION { { [i \in 1..n |->
                 [ArticleCreate(SummarizableTitles[i], "u1", "lwn", <<"p">>, 0)
                     EXCEPT !.summary = choice[i]]] :
              choice \in [1..n -> SummaryChoices] } : n \in 0..MaxSummarized }

\* process_articles, line 34
ArticlesToProcess(arts) ==
    SelectSeq([i \in 1..Len(arts) |-> i], LAMBDA k : Len(StrStrip(arts[k].summary)) = 0)

\* process_articles, line 35
ArticlesAlreadyProcessed(arts) ==
    SelectSeq([i \in 1..Len(arts) |-> i], LAMBDA k : Len(StrStrip(arts[k].summary)) > 0)

\* the list without the articles whose future raised
CombineSucceeded(processed, failed, already) == processed \o already

\* lines 81-83 and 47: the failed articles are added to the processed ones,
\* and the articles that had a summary to both
CombineProcessed(processed, failed, already) == processed \o failed \o already

SummarizeInit ==
    /\ duplicate_threshold = [num |-> 9, den |-> 10]
    /\ interest_topics = <<>>
    /\ min_relevance_score = DefaultMinRelevance
    /\ max_articles_per_day = DefaultMaxArticles
    /\ processed_urls = <<>>
    /\ now = 0
    /\ pc = "summarizer_client"
    /\ handled = 0
    /\ NoBatch
    /\ NoPipeline

\* process_articles(list), lines 29-44 and 58-63: with nothing to summarize
\* the list is returned; otherwise every article to process is submitted
ProcessArticles(list) ==
    /\ pc = "summarizer_client"
    /\ articles' = list
    /\ final_articles' = [i \in 1..Len(list) |-> i]
    /\ already_processed' = ArticlesAlreadyProcessed(list)
    /\ IF Len(ArticlesToProcess(list)) = 0
       THEN /\ pc' = "returned"
            /\ saved_articles' = [i \in 1..Len(list) |-> i]
            /\ UNCHANGED task_state
       ELSE /\ pc' = "as_completed"
            /\ task_state' = [k \in Range(ArticlesToProcess(list)) |-> "queued"]
            /\ UNCHANGED saved_articles
    /\ UNCHANGED <<configVars, processed_urls, now, handled, unique_articles,
                   duplicate_articles, seen_hashes, known_at_entry, relevant_articles,
                   scorerVars, returned, storeVars, fileVars, resubmitVars, retryVars, max_workers,
                   processed_articles, failed_articles, main_sleeps, since_completion>>

\* a free worker thread takes the next work item of the executor and starts
\* _process_single_article, which sends the request (lines 87-97)
WorkerStarts(k) ==
    /\ pc = "as_completed"
    /\ k \in DOMAIN task_state
    /\ task_state[k] = "queued"
    /\ \A j \in DOMAIN task_state : j < k => task_state[j] # "queued"
    /\ Cardinality({j \in DOMAIN task_state : task_state[j] = "running"}) < max_workers
    /\ task_state' = [task_state EXCEPT ![k] = "running"]
    /\ UNCHANGED <<configVars, processed_urls, now, pc, handled, batchVars,
                   selectionVars, scorerVars, returned, storeVars, fileVars, resubmitVars, retryVars,
                   max_workers, already_processed, processed_articles,
                   failed_articles, main_sleeps, since_completion>>

\* the request of a worker completes: the summary is set and the future has
\* a result (lines 97-106), or the error is raised again (lines 108-113)
WorkerCompletes(k, succeeds) ==
    /\ pc = "as_completed"
    /\ k \in DOMAIN task_state
    /\ task_state[k] = "running"
    /\ task_state' = [task_state EXCEPT ![k] = IF succeeds THEN "result" ELSE "raised"]
    /\ articles' = IF succeeds
                   THEN [articles EXCEPT ![k].summary = GeneratedSummary]
                   ELSE articles
    /\ since_completion' = 0
    /\ UNCHANGED <<configVars, processed_urls, now, pc, handled, unique_articles,
                   duplicate_articles, seen_hashes, known_at_entry, selectionVars,
                   scorerVars, returned, storeVars, fileVars, resubmitVars, retryVars, max_workers,
                   already_processed, processed_articles, failed_articles,
                   main_sleeps>>

\* the loop over as_completed takes a finished future (lines 66-78): a result
\* is appended and the thread sleeps, an error puts the article aside
TakeCompleted(k) ==
    /\ pc = "as_completed"
    /\ main_sleeps = 0
    /\ k \in DOMAIN task_state
    /\ task_state[k] \in {"result", "raised"}
    /\ k \notin Range(processed_articles) \cup Range(failed_articles)
    /\ IF task_state[k] = "result"
       THEN /\ processed_articles' = Append(processed_articles, k)
            /\ main_sleeps' = RateLimitTicks
            /\ UNCHANGED failed_articles
       ELSE /\ failed_articles' = Append(failed_articles, k)
            /\ UNCHANGED <<processed_articles, main_sleeps>>
    /\ UNCHANGED <<configVars, processed_urls, now, pc, handled, batchVars,
                   selectionVars, scorerVars, returned, storeVars, fileVars, resubmitVars, retryVars,
                   max_workers, already_processed, task_state, since_completion>>

\* the clock of the summarizer ticks
TimePasses ==
    /\ pc = "as_completed"
    /\ main_sleeps > 0 \/ since_completion \in 0..(RateLimitTicks - 1)
    /\ main_sleeps' = IF main_sleeps > 0 THEN main_sleeps - 1 ELSE 0
    /\ since_completion' = IF since_completion \in 0..(RateLimitTicks - 1)
                           THEN since_completion + 1 ELSE since_completion
    /\ UNCHANGED <<configVars, processed_urls, now, pc, handled, batchVars,
                   selectionVars, scorerVars, returned, storeVars, fileVars, resubmitVars, retryVars,
                   max_workers, already_processed, task_state, processed_articles,
                   failed_articles>>

\* every future was taken: the failed articles get their summary and the
\* lists are put together (lines 80-85 and 47-50)
ProcessArticlesReturn ==
    /\ pc = "as_completed"
    /\ main_sleeps = 0
    /\ Range(processed_articles) \cup Range(failed_articles) = DOMAIN task_state
    /\ pc' = "returned"
    /\ articles' = [k \in 1..Len(articles) |->
                       IF k \in Range(failed_articles)
                       THEN [articles[k] EXCEPT !.summary = FailedSummary]
                       ELSE articles[k]]
    /\ saved_articles' = CombineProcessed(processed_articles, failed_articles,
                                          already_processed)
    /\ UNCHANGED <<configVars, processed_urls, now, handled, unique_articles,
                   duplicate_articles, seen_hashes, known_at_entry, relevant_articles,
                   final_articles, scorerVars, returned, storeVars, fileVars, resubmitVars, retryVars,
                   summarizerVars>>

SummarizeNext ==
    \/ \E list \in SummarizableLists : ProcessArticles(list)
    \/ \E k \in 1..MaxSummarized : WorkerStarts(k)
    \/ \E k \in 1..MaxSummarized : \E succeeds \in BOOLEAN : WorkerCompletes(k, succeeds)
    \/ \E k \in 1..MaxSummarized : TakeCompleted(k)
    \/ TimePasses
    \/ ProcessArticlesReturn

\* one content processor summarizing the list of its client
SpecSummarize == SummarizeInit /\ [][SummarizeNext]_vars

(***************************************************************************)
(* The retries of the LLM client (summarizer/llm_client.py)                *)
(***************************************************************************)
\* the errors a call of the service raises: RateLimitError, or another one
LLMErrors == {"RateLimitError", "LLMError"}

\* generate_summary and generate_weekly_summary pass None for max_retries:
\* line 56 takes config.max_retries
ConfiguredRetries == 0..MaxRetries

\* the wait that grows by one rate_limit_delay or one second a retry
LinearWait(k, error) ==
    (k + 1) * (IF error = "RateLimitError" THEN RateLimitTicks ELSE 1)

\* lines 65 and 72: the wait after the failure of attempt k
BackoffWait(k, error) ==
    (2 ^ k) * (IF error = "RateLimitError" THEN RateLimitTicks ELSE 1)

RetryInit ==
    /\ duplicate_threshold = [num |-> 9, den |-> 10]
    /\ interest_topics = <<>>
    /\ min_relevance_score = DefaultMinRelevance
    /\ max_articles_per_day = DefaultMaxArticles
    /\ processed_urls = <<>>
    /\ now = 0
    /\ pc = "llm_client"
    /\ handled = 0
    /\ NoBatch
    /\ NoPipeline

\* _retry_with_backoff(func, None, ...) is called: line 56
RetryWithBackoff(configured) ==
    /\ pc = "llm_client"
    /\ pc' = "retrying"
    /\ max_retries' = configured
    /\ UNCHANGED <<configVars, processed_urls, now, handled, batchVars,
                   selectionVars, scorerVars, returned, storeVars, fileVars, resubmitVars,
                   summarizerVars, attempt, calls, errors, waits>>

\* an attempt of the loop whose call of func returns: line 60
AttemptReturns ==
    /\ pc = "retrying"
    /\ attempt <= max_retries
    /\ calls' = calls + 1
    /\ pc' = "returned"
    /\ UNCHANGED <<configVars, processed_urls, now, handled, batchVars,
                   selectionVars, scorerVars, returned, storeVars, fileVars, resubmitVars,
                   summarizerVars, max_retries, attempt, errors, waits>>

\* an attempt of the loop whose call of func raises: lines 60-74; the last
\* attempt raises the error again, the others sleep and go on
AttemptRaises(error) ==
    /\ pc = "retrying"
    /\ attempt <= max_retries
    /\ calls' = calls + 1
    /\ errors' = Append(errors, error)
    /\ IF attempt = max_retries
       THEN /\ pc' = "raised"
            /\ raised' = error
            /\ UNCHANGED <<attempt, waits>>
       ELSE /\ waits' = Append(waits, BackoffWait(attempt, error))
            /\ attempt' = attempt + 1
            /\ UNCHANGED <<pc, raised>>
    /\ UNCHANGED <<configVars, processed_urls, now, handled, batchVars,
                   selectionVars, corpus_stats, last_call, returned, storeVars, fileVars,
                   resubmitVars, summarizerVars, max_retries>>

RetryNext ==
    \/ \E configured \in ConfiguredRetries : RetryWithBackoff(configured)
    \/ AttemptReturns
    \/ \E error \in LLMErrors : AttemptRaises(error)

\* one call of _retry_with_backoff
SpecRetry == RetryInit /\ [][RetryNext]_vars

\* the call goes on: the function called returns or raises, the sleep ends
SpecRetryFair == SpecRetry /\ WF_vars(AttemptReturns \/ \E error \in LLMErrors : AttemptRaises(error))

(***************************************************************************)
(* The saves of the datastore (storage/datastore.py)                       *)
(***************************************************************************)
\* the maps a save of processed URLs is given: their URLs in insertion order
SavedMaps == {<<>>, <<"u1">>, <<"u2">>, <<"u1", "u2">>, <<"u2", "u1">>}

\* json.dump of lines 163-167: the text of the object with its count and its
\* URLs, one character or key a write
JsonDump(urls) == <<"{", ToString(Len(urls))>> \o urls \o <<"}">>

\* json.load of line 180: the URLs of a whole text, JSONDecodeError of any
\* other text
JsonLoad(text) ==
    IF /\ Len(text) >= 2
       /\ text[1] = "{"
       /\ text[Len(text)] = "}"
       /\ text[2] = ToString(Len(text) - 3)
    THEN <<"urls">> \o SubSeq(text, 3, Len(text) - 1)
    ELSE <<"JSONDecodeError">>

\* the texts a write that stops early leaves
Prefixes(text) == {SubSeq(text, 1, n) : n \in 0..Len(text)}

\* the handler that leaves the temporary file where it is
LeaveTemp(temp) == temp

\* lines 48-49: the temporary file is unlinked if it exists
CleanupTemp(temp) == IF temp # None THEN None ELSE temp

\* the steps of a save at which an exception is raised inside _atomic_write
AtomicWriteSteps == {"atomic_write", "temp_open", "dumping", "dumped"}

StoreInit ==
    /\ duplicate_threshold = [num |-> 9, den |-> 10]
    /\ interest_topics = <<>>
    /\ min_relevance_score = DefaultMinRelevance
    /\ max_articles_per_day = DefaultMaxArticles
    /\ processed_urls = <<>>
    /\ now = 0
    /\ pc = "store_client"
    /\ handled = 0
    /\ NoBatch
    /\ relevant_articles = <<>>
    /\ final_articles = <<>>
    /\ saved_articles = <<>>
    /\ corpus_stats = NoCorpusStats
    /\ last_call = <<>>
    /\ raised = ""
    /\ returned = <<>>
    /\ NoResubmit
    /\ NoSummarizer
    /\ NoRetry
    /\ stored_urls = <<>>
    /\ prev_accepted = <<>>
    /\ backup_enabled \in BOOLEAN
    /\ target_file \in {None} \cup {JsonDump(urls) : urls \in SavedMaps}
    /\ temp_file = None
    /\ backup_file = None
    /\ pending = <<>>
    /\ prior_target = None
    /\ failed_step = ""
    /\ loaded = <<>>

\* what a step of a save leaves alone
StoreUnchanged ==
    UNCHANGED <<configVars, processed_urls, now, handled, batchVars, selectionVars,
                corpus_stats, last_call, returned, storeVars, resubmitVars,
                summarizerVars, retryVars, backup_enabled>>

\* save_processed_urls is called: lines 152-159, with _backup_file (lines 53-63),
\* whose copy is whole, or stops early and is only logged
SaveProcessedUrls(urls) ==
    /\ pc = "store_client"
    /\ pc' = "atomic_write"
    /\ raised' = ""
    /\ failed_step' = ""
    /\ prior_target' = target_file
    /\ pending' = JsonDump(urls)
    /\ IF backup_enabled /\ target_file # None
       THEN backup_file' \in Prefixes(target_file) \cup {backup_file}
       ELSE UNCHANGED backup_file
    /\ UNCHANGED <<target_file, temp_file, loaded>>
    /\ StoreUnchanged

\* line 41: _atomic_write opens the temporary file for writing
OpenTemp ==
    /\ pc = "atomic_write"
    /\ pc' = "temp_open"
    /\ temp_file' = <<>>
    /\ UNCHANGED <<raised, target_file, backup_file, pending, prior_target, failed_step,
                   loaded>>
    /\ StoreUnchanged

\* line 162: the body of the with statement opens the temporary file again
OpenTempAgain ==
    /\ pc = "temp_open"
    /\ pc' = "dumping"
    /\ temp_file' = <<>>
    /\ UNCHANGED <<raised, target_file, backup_file, pending, prior_target, failed_step,
                   loaded>>
    /\ StoreUnchanged

\* lines 163-167: json.dump writes the next part of the text; the files are
\* closed after the last
DumpWrites ==
    /\ pc = "dumping"
    /\ temp_file' = Append(temp_file, pending[Len(temp_file) + 1])
    /\ pc' = IF Len(temp_file') = Len(pending) THEN "dumped" ELSE "dumping"
    /\ UNCHANGED <<raised, target_file, backup_file, pending, prior_target, failed_step,
                   loaded>>
    /\ StoreUnchanged

\* line 44: shutil.move renames the temporary file to the target, both in one
\* directory
MoveTemp ==
    /\ pc = "dumped"
    /\ pc' = "saved"
    /\ target_file' = temp_file
    /\ temp_file' = None
    /\ UNCHANGED <<raised, backup_file, pending, prior_target, failed_step, loaded>>
    /\ StoreUnchanged

\* lines 46-51: a step inside _atomic_write raises (open, json.dump, the write,
\* the rename, which changes nothing when it fails)
AtomicWriteFails ==
    /\ pc \in AtomicWriteSteps
    /\ failed_step' = pc
    /\ temp_file' = CleanupTemp(temp_file)
    /\ raised' = "DataStoreError"
    /\ pc' = "save_failed"
    /\ UNCHANGED <<target_file, backup_file, pending, prior_target, loaded>>
    /\ StoreUnchanged

\* the save returns or its error reaches the caller, which goes on
SaveEnds ==
    /\ pc \in {"saved", "save_failed"}
    /\ pc' = "store_client"
    /\ UNCHANGED <<raised, target_file, temp_file, backup_file, pending, prior_target,
                   failed_step, loaded>>
    /\ StoreUnchanged

\* lines 171-180: a reader opens the target, at any moment, and parses it
ReaderLoads ==
    /\ loaded' = IF target_file = None THEN <<"absent">> ELSE JsonLoad(target_file)
    /\ UNCHANGED <<pc, raised, target_file, temp_file, backup_file, pending,
                   prior_target, failed_step>>
    /\ StoreUnchanged

StoreNext ==
    \/ \E urls \in SavedMaps : SaveProcessedUrls(urls)
    \/ OpenTemp
    \/ OpenTempAgain
    \/ DumpWrites
    \/ MoveTemp
    \/ AtomicWriteFails
    \/ SaveEnds
    \/ ReaderLoads

\* one datastore saving maps of processed URLs, and the readers of its file
SpecStore == StoreInit /\ [][StoreNext]_vars

(***************************************************************************)
(* Properties of the duplicate detector                                    *)
(***************************************************************************)
\* the loop of find_duplicates_in_batch has just handled articles'[Len(articles')]
Handled == pc = "dedup" /\ Len(articles') = Len(articles) + 1

\* the similarity ratio of the normalised titles is at least / exactly the threshold
TitleRatioAtLeast(a, b) ==
    RatioAtLeast(NormalizeTitle(a.title), NormalizeTitle(b.title), duplicate_threshold)

TitleRatioExactly(a, b) ==
    /\ Len(NormalizeTitle(a.title)) + Len(NormalizeTitle(b.title)) > 0
    /\ 2 * Matches(NormalizeTitle(a.title), NormalizeTitle(b.title)) * duplicate_threshold.den
         = duplicate_threshold.num * (Len(NormalizeTitle(a.title)) + Len(NormalizeTitle(b.title)))

\* C1: in every batch, of two records whose raw contents are identical after
\* the detector's normalisation (lower-case, whitespace runs collapsed,
\* punctuation stripped) the later one is in the duplicate list.
C1_NormalizedContentDuplicate ==
    \A i \in 1..Len(articles) : \A j \in 1..Len(articles) :
        (/\ i < j
         /\ NormalizeContent(articles[i].raw_content)
              = NormalizeContent(articles[j].raw_content))
        => j \in Range(duplicate_articles)

\* C5: whenever the loop handles a record whose URL already has an entry,
\* the entry's process_count grows by one, its last_seen does not go back and
\* its content_hash becomes the record's, be the record unique or duplicate.
C5_EveryEncounterUpdatesEntry ==
    [][ Handled =>
          LET a == articles'[Len(articles')]
          IN  a.url \in DOMAIN processed_urls =>
                /\ processed_urls'[a.url].process_count
                     = processed_urls[a.url].process_count + 1
                /\ processed_urls'[a.url].last_seen >= processed_urls[a.url].last_seen
                /\ processed_urls'[a.url].content_hash = a.content_hash ]_vars

RepeatsUrl(a) ==
    /\ a.url \notin known_at_entry
    /\ \E i \in 1..Len(articles) :
          articles[i].url = a.url /\ articles[i].content_hash # a.content_hash
    /\ \A i \in 1..Len(articles) :
          articles[i].url = a.url => articles[i].content_hash # a.content_hash

\* C8 (as stated): with no entry for URL u when the call began, a record with
\* URL u that follows a record with URL u of another content hash, and whose
\* title is similar to no accepted title, is accepted as unique.
C8_RepeatedUrlUnique ==
    [][ Handled =>
          LET n == Len(articles')
              a == articles'[n]
          IN  (/\ RepeatsUrl(a)
               /\ \A k \in Range(unique_articles) : ~TitleRatioAtLeast(a, articles[k]))
              => n \in Range(unique_articles') ]_vars

\* C8 (amended): ... and whose content hash is none of the hashes accepted
\* earlier in the batch, is accepted as unique.
C8_RepeatedUrlUniqueUnlessHashSeen ==
    [][ Handled =>
          LET n == Len(articles')
              a == articles'[n]
          IN  (/\ RepeatsUrl(a)
               /\ \A k \in Range(unique_articles) : ~TitleRatioAtLeast(a, articles[k])
               /\ a.content_hash \notin seen_hashes)
              => n \in Range(unique_articles') ]_vars

\* C8, witness: two records of one batch with the same URL, unknown when the
\* call began, and different content hashes are both accepted.
C8_Witness ==
    \E i \in Range(unique_articles) : \E j \in Range(unique_articles) :
        /\ i < j
        /\ articles[i].url = articles[j].url
        /\ articles[i].url \notin known_at_entry
        /\ articles[i].content_hash # articles[j].content_hash

\* this step accepted a record with URL u as unique
Accepted(u) ==
    /\ Handled
    /\ Len(unique_articles') = Len(unique_articles) + 1
    /\ articles'[Len(articles')].url = u

\* C9: every entry has process_count >= 1 and first_seen <= last_seen; an
\* entry is created with process_count 1 by the acceptance of a record with
\* its URL, gains exactly one per later acceptance of a record with its URL,
\* each of which replaces content_hash by the record's, and otherwise does not
\* change.
C9_SeenCount ==
    /\ [](\A u \in DOMAIN processed_urls :
             /\ processed_urls[u].process_count >= 1
             /\ processed_urls[u].first_seen <= processed_urls[u].last_seen)
    /\ [][ \A u \in DOMAIN processed_urls' :
             LET a == articles'[Len(articles')]
             IN  IF u \notin DOMAIN processed_urls
                 THEN /\ Accepted(u)
                      /\ processed_urls'[u].process_count = 1
                      /\ processed_urls'[u].content_hash = a.content_hash
                 ELSE IF Accepted(u)
                 THEN /\ processed_urls'[u].process_count
                           = processed_urls[u].process_count + 1
                      /\ processed_urls'[u].content_hash = a.content_hash
                      /\ processed_urls'[u].first_seen = processed_urls[u].first_seen
                 ELSE processed_urls'[u] = processed_urls[u] ]_vars

\* C9, witness: an entry counts three acceptances, the last one later than
\* the first.
C9_Witness ==
    \E u \in DOMAIN processed_urls :
        /\ processed_urls[u].process_count = 3
        /\ processed_urls[u].first_seen < processed_urls[u].last_seen

\* C10: the unique list is a subsequence of the input batch: the accepted
\* records stand in the list in the order they have in the input.
C10_UniqueKeepsInputOrder ==
    \A i \in 1..Len(unique_articles) : \A j \in 1..Len(unique_articles) :
        i < j => unique_articles[i] < unique_articles[j]

\* C10, witness: a call that began with a non-empty map returns two accepted
\* records with a rejected one between them.
C10_Witness ==
    /\ pc = "idle"
    /\ known_at_entry # {}
    /\ \E i \in Range(unique_articles) : \E j \in Range(unique_articles) :
          \E d \in Range(duplicate_articles) : i < d /\ d < j

(***************************************************************************)
(* Properties of the relevance scorer                                      *)
(***************************************************************************)
\* two scores that differ by rounding at most
Near(x, y) == x - y <= 3 /\ y - x <= 3

\* C2: after calculate_comprehensive_score and after score_articles_batch
\* the score returned, and the relevance_score of every article of the batch,
\* lies in [0, 1].
C2_ScoreInUnitInterval ==
    /\ last_call # <<>> => 0 <= last_call.score /\ last_call.score <= ONE
    /\ \A k \in Range(relevant_articles) :
          0 <= articles[k].relevance_score /\ articles[k].relevance_score <= ONE

\* C2, witness: a scorer with no interest topic has scored a batch of an
\* article with an empty title, no content, an unparseable date and an unknown
\* source, and an article that came with the relevance_score 1.0.
C2_Witness ==
    /\ pc = "scorer"
    /\ interest_topics = <<>>
    /\ raised = ""
    /\ Len(relevant_articles) = 2
    /\ \E k \in Range(relevant_articles) :
          /\ articles[k].title = <<>>
          /\ articles[k].raw_content = <<>>
          /\ articles[k].discovered_date = NotADate
          /\ articles[k].source = "blog"
    /\ \E k \in Range(relevant_articles) :
          /\ articles[k].source = "arxiv"
          /\ articles[k].relevance_score < ONE

\* C4: a call of calculate_comprehensive_score with no corpus returns
\* min(1, 0.6 * topic relevance + 0.2 * content quality + 0.1 * freshness
\* + 0.1 * source credibility).
C4_CorpusWeightGoesToTopic ==
    (last_call # <<>> /\ Len(last_call.all_articles) = 0) =>
        LET a == last_call.article
            vocabulary == BuildTopicVocabulary(interest_topics)
        IN  Near(last_call.score,
                 Min(ONE, Times(TopicRelevance(a, interest_topics), 6, 10)
                          + Times(ContentQuality(a, vocabulary), 2, 10)
                          + Times(FreshnessScore(a, now), 1, 10)
                          + Times(SourceScore(a), 1, 10)))

(***************************************************************************)
(* Properties of the daily run                                             *)
(***************************************************************************)
\* the scored articles whose composite score reaches min_relevance_score
Eligible ==
    {k \in Range(relevant_articles) : articles[k].relevance_score >= min_relevance_score}

\* C3: when the run selects, with N scored articles of composite score >=
\* min_relevance_score and max_articles_per_day = M >= 1, the selection has
\* exactly min(N, M) articles, all different, in non-increasing order of
\* composite score, each of composite score >= min_relevance_score, and no
\* scored article left out has a higher composite score than a selected one.
C3_SelectionIsTopM ==
    [][ (pc = "select" /\ max_articles_per_day >= 1) =>
          /\ Len(final_articles') = Min(Cardinality(Eligible), max_articles_per_day)
          /\ Cardinality(Range(final_articles')) = Len(final_articles')
          /\ \A i \in 1..Len(final_articles') : \A j \in 1..Len(final_articles') :
                i < j => articles[final_articles'[i]].relevance_score
                           >= articles[final_articles'[j]].relevance_score
          /\ Range(final_articles') \subseteq Eligible
          /\ \A k \in Range(relevant_articles) \ Range(final_articles') :
                \A j \in Range(final_articles') :
                   articles[k].relevance_score <= articles[j].relevance_score ]_vars

\* C3, witness: the selection is made, is full, and leaves out an article
\* that reaches the threshold, stood earlier in the input and has a lower
\* composite score than every selected one.
C3_Witness ==
    /\ pc = "summarize"
    /\ Len(final_articles) = max_articles_per_day
    /\ \E k \in Eligible \ Range(final_articles) :
          \A j \in Range(final_articles) :
             /\ k < j
             /\ articles[k].relevance_score < articles[j].relevance_score

\* C6: a record that a run's deduplication accepts or rejects, whose URL the
\* previous run accepted with the same content hash and which no earlier
\* record of this run shares its URL with, is flagged by the URL-history check
\* and put in the duplicate list.
C6_AcceptedUrlKnownNextRun ==
    [][ Handled =>
          LET n == Len(articles')
              a == articles'[n]
          IN  (/\ a.url \in DOMAIN prev_accepted
               /\ prev_accepted[a.url].content_hash = a.content_hash
               /\ \A i \in 1..Len(articles) : articles[i].url # a.url)
              => /\ DuplicateByUrl(processed_urls, a)
                 /\ n \in Range(duplicate_articles') ]_vars

\* C11: in a run, a step changes the relevance_score or the related_topics
\* of a record only if it is the scorer's step and the record still has
\* both as it was created with: the scorer alone writes them, once.
C11_WrittenOnceByScorer ==
    [][ \A k \in 1..Len(articles) :
          (/\ k <= Len(articles')
           /\ \/ articles'[k].relevance_score # articles[k].relevance_score
              \/ articles'[k].related_topics # articles[k].related_topics)
          => /\ pc = "score"
             /\ articles[k].relevance_score = 0
             /\ articles[k].related_topics = <<>> ]_vars

\* C12: the statistics a scoring call works with are those of the list it
\* is given: after calculate_comprehensive_score with a corpus, and after
\* score_articles_batch, the scorer's document count and document frequencies
\* (which the call used) are the ones computed from that corpus or batch.
C12_StatsOfSameCorpus ==
    /\ (last_call # <<>> /\ Len(last_call.all_articles) > 0)
          => corpus_stats = BuildCorpusStats(last_call.all_articles)
    /\ Len(relevant_articles) > 0 => corpus_stats = BuildCorpusStats(articles)

\* C13: when score_articles_batch has been given a batch, no error has left
\* it, every record whose scoring raises no error carries its composite score
\* and stands in the list returned, and every record whose scoring raises is
\* left out of it.
C13_BatchSurvivesError ==
    (pc = "scorer" /\ Len(articles) > 0) =>
        /\ raised = ""
        /\ \A k \in 1..Len(articles) :
              IF ScoringRaises(articles[k])
              THEN k \notin Range(relevant_articles)
              ELSE /\ k \in Range(relevant_articles)
                   /\ articles[k].relevance_score
                        = ComprehensiveScore(articles[k], articles,
                                             BuildCorpusStats(articles), interest_topics, now)

(***************************************************************************)
(* Properties of the topic filter                                          *)
(***************************************************************************)
\* C14: a filter with no interest topic returns no record and raises no
\* error, whatever the batch and the minimum relevance in [0, 1].
C14_NoTopicNoRecord ==
    (pc = "filter_client" /\ interest_topics = <<>>) =>
        /\ relevant_articles = <<>>
        /\ raised = ""

\* the aggregate topic score of an article: min(1.0, the sum of the scores
\* of the configured topics / the number of configured topics)
AggregateTopicScore(article) ==
    IF Len(interest_topics) = 0 THEN 0
    ELSE Min(ONE, SumSeq([i \in 1..Len(interest_topics) |->
                             ScoreTopicMatch(ArticleText(article), interest_topics[i])])
                  \div Len(interest_topics))

\* C15: filter_articles returns a record if and only if its aggregate topic
\* score is at least min_relevance_score.
C15_GateIsAggregate ==
    pc = "filter_client" =>
        Range(relevant_articles)
          = {k \in 1..Len(articles) : AggregateTopicScore(articles[k]) >= min_relevance_score}

\* the configured topics with a nonzero score for the article, in the order
\* of topics
NonzeroTopics(article, topics) ==
    SelectSeq(topics, LAMBDA t : ScoreTopicMatch(ArticleText(article), t) > 0)

\* C16 (as stated): the related_topics of every record filter_articles
\* returns is the sequence of the configured topics whose score for the
\* record is nonzero, in the order of the configuration, and holds configured
\* topics only.
C16_RelatedTopicsAsDeclared ==
    pc = "filter_client" =>
        \A k \in Range(relevant_articles) :
            /\ articles[k].related_topics = NonzeroTopics(articles[k], interest_topics)
            /\ Range(articles[k].related_topics) \subseteq Range(interest_topics)

\* C16 (amended): ... is the sequence of the distinct configured topics whose
\* score for the record is nonzero, each once, in the order of their first
\* declaration, and holds configured topics only.
C16_RelatedTopicsDistinct ==
    pc = "filter_client" =>
        \A k \in Range(relevant_articles) :
            /\ articles[k].related_topics
                 = NonzeroTopics(articles[k], Distinct(interest_topics))
            /\ Range(articles[k].related_topics) \subseteq Range(interest_topics)

\* C16, witness: a filter with two topics has returned a record that matches
\* both, in the order of the configuration, and a record that matches the
\* first only.
C16_Witness ==
    /\ pc = "filter_client"
    /\ Len(interest_topics) = 2
    /\ interest_topics[1] # interest_topics[2]
    /\ \E k \in Range(relevant_articles) : articles[k].related_topics = interest_topics
    /\ \E k \in Range(relevant_articles) :
          articles[k].related_topics = <<interest_topics[1]>>


\* C17: a record whose raw content is missing or empty is fingerprinted as the
\* empty string, so that any two such records of a batch have the same content
\* fingerprint whatever their titles are
C17_EmptyContentHashedAsEmpty ==
    \A i, j \in 1..Len(articles) :
        (articles[i].raw_content = <<>> /\ articles[j].raw_content = <<>>)
            => /\ articles[i].content_hash = ArticleContentHash(<<>>)
               /\ articles[i].content_hash = articles[j].content_hash

\* a call of cleanup_old_urls has just returned
CleanedUp == pc = "idle" /\ pc' = "idle" /\ now' = now

\* C18: cleanup_old_urls(days) removes exactly the entries whose last_seen is
\* earlier than now minus days, leaves every other entry as it was, changes
\* nothing but the map, and returns the number of entries removed, which is
\* the decrease of the size of the map
C18_CleanupRemovesOld ==
    [][ CleanedUp =>
          /\ DOMAIN processed_urls'
                = {u \in DOMAIN processed_urls :
                      ~(processed_urls[u].last_seen < now - returned'.days)}
          /\ \A u \in DOMAIN processed_urls' : processed_urls'[u] = processed_urls[u]
          /\ returned'.result = Cardinality(DOMAIN processed_urls)
                                  - Cardinality(DOMAIN processed_urls')
          /\ UNCHANGED <<configVars, handled, batchVars, selectionVars, scorerVars,
                         storeVars>> ]_vars

\* a sweep of one day has removed an entry and has kept the entry last seen
\* exactly one day ago
C18_Witness ==
    /\ pc = "idle"
    /\ returned # <<>>
    /\ returned.days = 1
    /\ returned.result = 1
    /\ \E u \in DOMAIN processed_urls : processed_urls[u].last_seen = now - 1

\* the configuration has no topic, or one of its thresholds is out of range
\* (a negative number of articles a day is)
OutOfRange ==
    \/ interest_topics = <<>>
    \/ ~(0 <= min_relevance_score /\ min_relevance_score <= ONE)
    \/ ~(0 <= duplicate_threshold.num /\ duplicate_threshold.num <= duplicate_threshold.den)
    \/ max_articles_per_day < 0

\* C19: with a configuration that has no topic or a threshold out of range,
\* no stage of the pipeline ever runs: the run stays where it started, with
\* no article crawled or deduplicated
C19_OutOfRangeNeverRuns ==
    OutOfRange => /\ pc = "idle"
                  /\ articles = <<>>
                  /\ processed_urls = <<>>

\* the number of the articles at hand whose score is at least v, and above v
ScoredAtLeast(v) == Cardinality({k \in 1..Len(articles) : articles[k].relevance_score >= v})

ScoredAbove(v) == Cardinality({k \in 1..Len(articles) : articles[k].relevance_score > v})

\* C20: suggest_score_threshold over N scores with target count K >= 1
\* returns the K-th largest score when N > K (a score of the list that fewer
\* than K scores exceed and at least K scores reach) and 0.0 when N <= K; in
\* both cases at least min(N, K) articles have a score >= the threshold.
C20_ThresholdIsKthLargest ==
    (pc = "threshold_client" /\ returned # <<>> /\ returned.target_count >= 1) =>
        LET N == Len(articles)
            K == returned.target_count
        IN  /\ N <= K => returned.result = 0
            /\ N > K => /\ \E k \in 1..N : articles[k].relevance_score = returned.result
                        /\ ScoredAbove(returned.result) < K
                        /\ ScoredAtLeast(returned.result) >= K
            /\ ScoredAtLeast(returned.result) >= Min(N, K)

\* C20, witness: a threshold was asked for with fewer places than articles,
\* and it parts the articles: one lies above it, one below it
C20_Witness ==
    /\ pc = "threshold_client"
    /\ returned # <<>>
    /\ returned.target_count >= 2
    /\ Len(articles) > returned.target_count
    /\ ScoredAbove(returned.result) >= 1
    /\ ScoredAtLeast(returned.result) < Len(articles)

\* the second call on the batch has returned
SecondPassDone == first_pass # <<>> /\ pc = "idle"

\* C21: a batch deduplicated twice, each time by a new detector that is given
\* the caller's map, empty at first, is parted the same way twice: the first
\* run leaves nothing in the map object that changes the second run's result
C21_SecondRunSamePartition ==
    (SecondPassDone /\ second_pass = "new detector") =>
        /\ unique_articles = first_pass.unique_articles
        /\ duplicate_articles = first_pass.duplicate_articles

\* C23: a batch submitted again to the detector that has processed it yields
\* no unique article: every article of it is classified duplicate
C23_ResubmittedAllDuplicate ==
    (SecondPassDone /\ second_pass = "same detector") =>
        /\ unique_articles = <<>>
        /\ Len(duplicate_articles) = Len(articles)

\* a worker sends a request to the service
RequestStarts ==
    \E k \in DOMAIN task_state :
       /\ task_state[k] = "queued"
       /\ k \in DOMAIN task_state'
       /\ task_state'[k] = "running"

\* C22: while a batch is summarized in parallel, once a request has
\* completed, no request is started before rate_limit_delay has passed since
\* the last completion
C22_NoRequestWithinDelay ==
    [][ RequestStarts => (since_completion = -1 \/ since_completion >= RateLimitTicks) ]_vars

\* C25: process_articles returns exactly the articles it was given, each
\* once, whatever the order in which the workers complete; an article whose
\* summarization raised is kept, with the summary 'Summary generation failed',
\* and an article that has a summary is left as it is
C25_AllArticlesReturned ==
    [][ /\ pc' = "returned" =>
              /\ Len(saved_articles') = Len(articles')
              /\ Range(saved_articles') = 1..Len(articles')
              /\ \A k \in DOMAIN task_state :
                    task_state[k] = "raised" =>
                        articles'[k] = [articles[k] EXCEPT !.summary = FailedSummary]
        /\ \A k \in 1..Len(articles) :
              Len(StrStrip(articles[k].summary)) > 0 => articles'[k] = articles[k] ]_vars

\* C25, witness: the call has returned a list in another order than the one
\* given, with an article that failed, one that was summarized and one that
\* had its summary before
C25_Witness ==
    /\ pc = "returned"
    /\ saved_articles # [i \in 1..Len(articles) |-> i]
    /\ Len(failed_articles) > 0
    /\ Len(processed_articles) > 0
    /\ \E k \in 1..Len(articles) : articles[k].summary = <<"o","l","d">>

\* C24: the list of articles a run saves after the summarization, whose first
\* three it reports as the top articles by relevance, is in non-increasing
\* order of composite score, whatever the order in which the workers
\* complete and whichever summarizations fail
C24_SavedInScoreOrder ==
    \A i, j \in 1..Len(saved_articles) :
        i < j => articles[saved_articles[i]].relevance_score
                   >= articles[saved_articles[j]].relevance_score

\* C26: _retry_with_backoff terminates; it calls the function at most
\* max_retries + 1 times, returns at the first call that succeeds, raises the
\* error of the last attempt when every attempt failed, without a sleep after
\* it, and before retry k it has slept 2^k * rate_limit_delay after a
\* RateLimitError and 2^k seconds after another error
C26_RetryTerminates ==
    /\ [](/\ calls <= max_retries + 1
          /\ \A k \in 1..Len(waits) : waits[k] = (2 ^ (k - 1)) *
                (IF errors[k] = "RateLimitError" THEN RateLimitTicks ELSE 1)
          /\ pc = "returned" => /\ calls = Len(errors) + 1
                                /\ Len(waits) = Len(errors)
          /\ pc = "raised" => /\ calls = max_retries + 1
                              /\ Len(errors) = calls
                              /\ Len(waits) = calls - 1
                              /\ raised = errors[calls])
    /\ (pc = "retrying") ~> (pc \in {"returned", "raised"})

\* C26, witness: every attempt failed, with errors of both kinds, and the
\* last error was raised after three sleeps
C26_Witness ==
    /\ pc = "raised"
    /\ Len(waits) = 3
    /\ Range(errors) = LLMErrors


(***************************************************************************)
(* Properties of the saves of the datastore                                *)
(***************************************************************************)
\* C27: a save that fails at a step before the move (the opening of the
\* temporary file, json.dump) leaves the target with the text it had when the
\* save was called, leaves no temporary file and raises DataStoreError; and
\* the target never holds a text written in part: a reader gets the whole
\* object of some save, or finds no file
C27_FailedSaveKeepsTarget ==
    /\ pc = "save_failed" /\ failed_step \in AtomicWriteSteps \ {"dumped"}
          => /\ target_file = prior_target
             /\ temp_file = None
             /\ raised = "DataStoreError"
    /\ target_file \in {None} \cup {JsonDump(urls) : urls \in SavedMaps}
    /\ loaded \in {<<>>, <<"absent">>} \cup {<<"urls">> \o urls : urls \in SavedMaps}
    /\ pc \in {"dumping", "dumped"} => target_file = prior_target

\* json.dump has failed after a part of another map was written, and a reader
\* has then read the map stored before
C27_Witness ==
    /\ pc = "save_failed"
    /\ failed_step = "dumping"
    /\ prior_target = JsonDump(<<"u1">>)
    /\ pending = JsonDump(<<"u2", "u1">>)
    /\ loaded = <<"urls", "u1">>


(***************************************************************************)
(* Properties of the stages of a daily run                                 *)
(***************************************************************************)
\* the list holds no record twice
NoRepeat(list) == Cardinality(Range(list)) = Len(list)

\* C28: every record given to find_duplicates_in_batch is in exactly one of
\* the unique and duplicate lists, and the stages of a run only select: the
\* final records are among the topic-relevant ones, these among the unique
\* ones, each list holds no record twice, so final <= relevant <= unique <=
\* found, and every final record passes the topic gate
C28_StagesPartitionAndShrink ==
    /\ Range(unique_articles) \cup Range(duplicate_articles) = 1..Len(articles)
    /\ Range(unique_articles) \cap Range(duplicate_articles) = {}
    /\ Len(unique_articles) + Len(duplicate_articles) = Len(articles)
    /\ Range(final_articles) \subseteq Range(relevant_articles)
    /\ Range(relevant_articles) \subseteq Range(unique_articles)
    /\ NoRepeat(final_articles) /\ NoRepeat(relevant_articles) /\ NoRepeat(unique_articles)
    /\ Len(final_articles) <= Len(relevant_articles)
    /\ Len(relevant_articles) <= Len(unique_articles)
    /\ Len(unique_articles) <= Len(articles)
    /\ \A k \in Range(final_articles) :
          PassesTopicFilter(articles[k], interest_topics, min_relevance_score)

\* a run has rejected a duplicate, and has then left out a topic-relevant
\* record that was under the threshold or over the cap
C28_Witness ==
    /\ pc = "summarize"
    /\ Len(final_articles) >= 1
    /\ Len(final_articles) < Len(relevant_articles)
    /\ Len(duplicate_articles) >= 1


(***************************************************************************)
(* Properties of the scoring of the empty batch                            *)
(***************************************************************************)
\* C29: score_articles_batch of the empty batch returns the empty list and
\* raises no error
C29_EmptyBatchScored ==
    [][ScoreArticlesBatch(<<>>) => /\ raised' = ""
                                   /\ relevant_articles' = <<>>]_vars

(***************************************************************************)
(* Properties of the final selection                                       *)
(***************************************************************************)
\* C30: every record of the final selection of a daily run has a matched
\* topic, whatever the valid configuration of the run
C30_FinalHaveMatchedTopic ==
    \A k \in Range(final_articles) : articles[k].related_topics # <<>>

====
